---------------------------- MODULE Spec2Model ----------------------------
(***************************************************************************)
(* A model of true_debank_checker's retrieval pipeline.                    *)
(*                                                                         *)
(*   Spec      process_balances (src/start.py), its worker threads and the *)
(*             two queues, followed by the restructuring of get_balances.  *)
(*             Init draws the arguments of process_balances.               *)
(*   FairSpec  Spec with the fairness a thread scheduler gives: a thread   *)
(*             that can take a step eventually takes one.                  *)
(*   SpecReq   one authenticated request of one thread (src/app/utils.py): *)
(*             edit_session_headers, then send_request and its retries,    *)
(*             each signing call down to NodeProcess.write and readline.   *)
(*             Init draws the request among the four the program makes.    *)
(*   SpecFilter    the loop of chain_balance over the coin entries of one  *)
(*             response.  Init draws the entries, ticker and min_amount.   *)
(*   SpecDiscover  the discovery of get_balances on the main thread:       *)
(*             get_chains, then get_pools.  Init draws the wallets.        *)
(*   SpecLoad  the loading of the wallets file by main, row by row.  Init  *)
(*             draws the file.                                             *)
(*   SpecRun   get_balances as a whole: the discovery, the choice of the   *)
(*             targets, then Spec.  Init draws the wallets and the mode.   *)
(*   SpecHandle    one NodeProcess handle (src/app/utils.py) from its      *)
(*             construction on, with the streams of its subprocess.        *)
(*   SpecDb    one call of save_to_database (src/app/db_operations.py),    *)
(*             statement by statement.  Init draws the database and the    *)
(*             arguments of automatic mode.                                *)
(*                                                                         *)
(* What a worker's HTTP request returns, and whether it raises, is decided *)
(* by the API and by the signing subprocess: Spec draws it.  In SpecReq    *)
(* the outcome of each write to and read from the subprocess's pipes and   *)
(* the response to each HTTP call are drawn from the outcomes the code     *)
(* tells apart.                                                            *)
(***************************************************************************)
EXTENDS Integers, Sequences, FiniteSets, TLC

(***************************************************************************)
(* Bounds of the model.                                                    *)
(***************************************************************************)
MaxThreads == 2

MaxWallets == 2

\* send_request has no ceiling; the model follows it for this many HTTP calls.
MaxHttpCalls == 3

(***************************************************************************)
(* Values.                                                                 *)
(***************************************************************************)
None == "None"

Addresses == {"0xa", "0xb"}

ChainNames == <<"eth", "bsc">>

PoolNames == {"Aave (eth)"}

\* A JSON number: Python decodes 100 as an int and 100.0 as a float; a
\* price may be null.
Int_(v) == [kind |-> "int", v |-> v]

Float(v) == [kind |-> "float", v |-> v]

Null == [kind |-> "null", v |-> 0]

Coin(symbol, amount, price) ==
    [amount |-> amount, name |-> symbol, optimized_symbol |-> symbol,
     price |-> price, logo_url |-> "logo"]

\* data[] of /token/balance_list for an address on a chain: the API's answer.
BalanceList(address, chain) ==
    IF address = "0xa" /\ chain = "eth"
      THEN <<Coin("USDC", Int_(100), Int_(1))>>
    ELSE IF address = "0xa" /\ chain = "bsc"
      THEN <<Coin("USDC", Float(100), Float(1)), Coin("ETH", Float(1), Float(2))>>
    ELSE IF address = "0xb" /\ chain = "bsc"
      THEN <<Coin("BNB", Float(3), Null)>>
    ELSE <<>>

\* data.usd_value_list of /asset/net_curve_24h for an address: the points
\* [timestamp, usd_value] of the last 24 hours, the oldest first.
NetCurve(address) ==
    IF address = "0xa" THEN <<<<1, 98>>, <<2, 105>>, <<3, 102>>>>
    ELSE <<<<1, 7>>, <<2, 0>>>>

\* The coin entries get_pools stores for a wallet in a pool.
PoolCoins(address) ==
    <<[amount |-> Float(5), name |-> "aUSDC", ticker |-> "aUSDC",
       price |-> Float(1), logo_url |-> "logo"]>>

EmptyDict == [x \in {} |-> <<>>]

\* d[k] = v on a Python dict.
DictSet(d, k, v) == [x \in (DOMAIN d) \cup {k} |-> IF x = k THEN v ELSE d[x]]

Range(s) == {s[i] : i \in 1..Len(s)}

\* The subsequences of s, order kept.
RECURSIVE SubSeqs(_)
SubSeqs(s) ==
    IF s = <<>> THEN {<<>>}
    ELSE LET rest == SubSeqs(Tail(s))
         IN  rest \cup {<<Head(s)>> \o r : r \in rest}

(***************************************************************************)
(* chain_balance: the filter over the response of /token/balance_list.     *)
(***************************************************************************)
\* coin["amount"] * coin["price"], or '?' when the price is None.
coin_in_usd(coin) ==
    IF coin.price.kind = "null" THEN [kind |-> "str", v |-> 0]
    ELSE [kind |-> IF coin.amount.kind = "float" \/ coin.price.kind = "float"
                     THEN "float" ELSE "int",
          v |-> coin.amount.v * coin.price.v]

\* Mutant of Kept: an entry of unknown price goes the way of the others.
Kept_NoUnknown(coin, ticker, min_amount) ==
    /\ ticker = None \/ ticker = coin.optimized_symbol
    /\ LET usd == coin_in_usd(coin)
       IN  usd.kind = "float" /\ usd.v > min_amount

\* ticker in (None, coin['optimized_symbol']) and
\* (isinstance(coin_in_usd, str) or
\*  (isinstance(coin_in_usd, float) and coin_in_usd > min_amount))
Kept(coin, ticker, min_amount) ==
    /\ ticker = None \/ ticker = coin.optimized_symbol
    /\ LET usd == coin_in_usd(coin)
       IN  usd.kind = "str" \/ (usd.kind = "float" /\ usd.v > min_amount)

RECURSIVE FilterCoins(_, _, _)
FilterCoins(data, ticker, min_amount) ==
    IF data = <<>> THEN <<>>
    ELSE LET coin == Head(data)
             rest == FilterCoins(Tail(data), ticker, min_amount)
         IN  IF Kept(coin, ticker, min_amount)
               THEN <<[amount |-> coin.amount, name |-> coin.name,
                       ticker |-> coin.optimized_symbol, price |-> coin.price,
                       logo_url |-> coin.logo_url]>> \o rest
               ELSE rest

chain_balance(address, chain, ticker, min_amount) ==
    FilterCoins(BalanceList(address, chain), ticker, min_amount)

\* Mutant of get_wallet_balance: the value of the first point of the curve.
get_wallet_balance_First(address) == NetCurve(address)[1][2]

\* resp.json()['data']['usd_value_list'][-1][1]
get_wallet_balance(address) == NetCurve(address)[Len(NetCurve(address))][2]

(***************************************************************************)
(* State.                                                                  *)
(***************************************************************************)
VARIABLES
    wallets,            \* process_balances arguments
    selected_chains,
    ticker,
    min_amount,
    num_of_threads,
    pools,
    queue_tasks,        \* Queue(): FIFO
    queue_results,
    threads,            \* number of threads started
    wpc,                \* each worker thread's position
    wtask,              \* the task a worker holds
    opc,                \* the orchestrator's position
    chain_id,           \* index of the chain loop (1-based)
    k,                  \* index of the inner wallet loops
    coins,
    balances,
    restructured_coins,
    enqueued,           \* history: tasks put, poison excluded
    put_log,            \* history: the tasks put, in order, poison excluded
    produced,           \* history: results put by workers
    drained,            \* history: results drained, per chain index
    drained_totals,     \* history: wallet-total results drained
    forwards,           \* history: poison puts per worker
    consumed,           \* history: poison gets per worker
    node_process,       \* the NodeProcess each thread's setup_session built
    wsession,           \* the (session, node_process) pair a worker holds,
                        \* named by the thread whose setup_session built it
    session_signer      \* per pair: the thread whose signing call last
                        \* wrote the session's headers

pvars == <<wallets, selected_chains, ticker, min_amount, num_of_threads, pools,
           queue_tasks, queue_results, threads, wpc, wtask, opc, chain_id, k,
           coins, balances, restructured_coins, enqueued, put_log, produced, drained,
           drained_totals, forwards, consumed, node_process, wsession, session_signer>>

VARIABLES
    req,                \* the request: what its caller signs and sends
    rpc,                \* the requesting thread's position
    sign_args,          \* payload, method, path of the signing call under way
    attempt,            \* generate_req_params: loop variable
    wattempt,           \* NodeProcess.write: loop variable
    wrestarts,          \* history: the restarts made by this call of write
    written,            \* the line the signing subprocess was last sent
    headers,            \* session.headers: what the x-api-* fields sign
    http_calls,         \* history: HTTP calls issued by send_request
    last_resp,          \* the response to the last HTTP call
    retval,             \* what send_request returned
    error,              \* the exception that ended the request
    sign_log,           \* history: outcome of each attempt of the signing call
    restarted,          \* history: _start_process ran during or after the last
                        \* attempt of the signing call
    process             \* NodeProcess.process: the Popen object, or None

rvars == <<req, rpc, sign_args, attempt, wattempt, wrestarts, written, headers, http_calls,
           last_resp, retval, error, sign_log, restarted, process>>

VARIABLES
    cb_data,            \* chain_balance: resp.json()['data']
    cb_ticker,          \* chain_balance: ticker
    cb_min_amount,      \* chain_balance: min_amount
    cb_pos,             \* chain_balance: position of the for loop (1-based)
    cb_coins,           \* chain_balance: coins
    cb_kept,            \* history: positions of the entries appended
    cb_pc               \* "idle", "loop" or "returned"

fvars == <<cb_data, cb_ticker, cb_min_amount, cb_pos, cb_coins, cb_kept, cb_pc>>

VARIABLES
    gpc,                \* get_balances, its discovery: "idle", "get_chains",
                        \* "get_pools", "fill", "discovered" or "raised"
    gi,                 \* position of the loop over wallets (1-based)
    chains,             \* get_chains: chains
    all_pools,          \* get_pools: all_pools
    gerror,             \* the exception that left get_balances
    glog,               \* history: the log lines of get_pools, per position
    goutcome,           \* history: how the request of each position ended,
                        \* in get_chains and in get_pools
    gcall,              \* the request of the discovery that is in flight:
                        \* "none", "used_chains" or "project_list"
    gused,              \* history: the chain list of each used-chains response
    chain_list          \* get_balances: chains, the list made of the set

dvars == <<gpc, gi, chains, all_pools, gerror, glog, goutcome, gcall, gused,
           chain_list>>

VARIABLES
    file_rows,          \* main: the rows of the wallets file
    row_id,             \* position of the comprehension over the rows (1-based)
    lpc,                \* main, its loading: "idle", "load" or "loaded"
    auto_import,        \* get_balances: auto_import
    asked               \* history: the questions put to the user

mvars == <<file_rows, row_id, lpc, auto_import, asked>>

VARIABLES
    np_pc,              \* the holder of a NodeProcess: "off", "new", "start",
                        \* "with_exit", "waiting", "returned", "idle",
                        \* "write", "readline", "reread" or "closed"
    np_caller,          \* the caller of _start_process
    np_process,         \* self.process: None or "Popen"
    np_running,         \* the subprocess last started has not ended
    np_stdin,           \* its stdin pipe: "none", "open" or "closed"
    np_stdout,          \* its stdout pipe
    np_attempt,         \* write: attempt
    np_data,            \* write: data
    np_log,             \* history: the calls made and how each ended
    np_starts           \* history: the subprocesses started

hvars == <<np_pc, np_caller, np_process, np_running, np_stdin, np_stdout,
           np_attempt, np_data, np_log, np_starts>>

VARIABLES
    db_pc,              \* save_to_database: "off", "connect", the statement
                        \* to come, "commit", "returned" or "raised"
    db_args,            \* its arguments: wallets, chains, coins, pools
    db_committed,       \* the database as committed
    db_tx,              \* the database as the call's transaction sees it
    db_pos,             \* positions of the three nested loops (1-based)
    import_run_id,      \* import_run_id
    db_error,           \* the exception that left the call
    db_before           \* history: the database when the call began

bvars == <<db_pc, db_args, db_committed, db_tx, db_pos, import_run_id,
           db_error, db_before>>

vars == <<pvars, rvars, fvars, dvars, mvars, hvars, bvars>>

\* What process_balances has of its own, and the sessions: pvars but for
\* the wallets.
prest == <<selected_chains, ticker, min_amount, num_of_threads, pools,
           queue_tasks, queue_results, threads, wpc, wtask, opc, chain_id, k,
           coins, balances, restructured_coins, enqueued, put_log, produced,
           drained, drained_totals, forwards, consumed, node_process, wsession,
           session_signer>>

inputs == <<wallets, selected_chains, ticker, min_amount, num_of_threads, pools>>

\* if (num_of_threads) == 0: num_of_threads = 3
DefaultThreads == 3

\* get_num_of_threads (src/app/questions.py): the integer entered, 3 for 0.
get_num_of_threads(entered) == IF entered = 0 THEN DefaultThreads ELSE entered

\* get_minimal_amount_in_usd (src/app/questions.py): the number entered,
\* -1 for 0.
get_minimal_amount_in_usd(entered) == IF entered = 0 THEN 0 - 1 ELSE entered

\* The integers entered as the number of threads.
ThreadAnswers == (0 - 1)..MaxThreads

\* The threads that a call of process_balances may start.
Workers ==
    1..(IF MaxThreads > DefaultThreads THEN MaxThreads ELSE DefaultThreads)

\* The threads of the program: main, which runs the discovery and
\* process_balances, and the workers process_balances starts.
MainThread == 0

Threads == {MainThread} \cup Workers

\* No thread: the pair a worker holds before its setup_session, the signer
\* of a session nothing has signed for.
NoThread == 0 - 1

svars == <<node_process, wsession, session_signer>>

NoTask == <<"none">>

pools_names == DOMAIN pools

\* The wallet lists drawn: distinct addresses in turn, or one address
\* repeated (main does not remove the duplicate lines of the wallets file).
WalletLists ==
    {[i \in 1..m |-> IF i % 2 = 1 THEN "0xa" ELSE "0xb"] : m \in 0..MaxWallets}
      \cup {<<"0xb">>, <<"0xb", "0xb">>}

\* The pool maps drawn for the pools argument: a pool maps the wallets
\* that hold a position in it, here the first wallet.
PoolMaps(ws) ==
    UNION {[P -> {[h \in H |-> PoolCoins(h)] :
                    H \in {G \in SUBSET Range(ws) : ws # <<>> /\ G = {ws[1]}}}]
             : P \in SUBSET PoolNames}

SelectableLists(ps) ==
    UNION {{c \o p : p \in SubSeqs(ps)} : c \in SubSeqs(ChainNames)}

SetToSeq(S) == CHOOSE s \in [1..Cardinality(S) -> S] : Range(s) = S

(***************************************************************************)
(* Values of a request (src/app/utils.py, and its callers in start.py).    *)
(***************************************************************************)
\* An URL https://api.debank.com<path>?<query>.
Url(path, query) == [host |-> "api.debank.com", path |-> path, query |-> query]

\* url.split('api.debank.com')[1].split('?')[0]
PathOfUrl(url) == url.path

\* The payload each caller signs, and the arguments it gives send_request,
\* which are method and url alone: payload and params are left to None.
chain_balance_request(address, chain) ==
    [payload |-> <<"user_addr", address, "chain", chain>>, method |-> "GET",
     path |-> "/token/balance_list",
     url |-> Url("/token/balance_list", <<"user_addr", address, "chain", chain>>),
     send_payload |-> None, send_params |-> None]

get_used_chains_request(address) ==
    [payload |-> <<"id", address>>, method |-> "GET",
     path |-> "/user/used_chains",
     url |-> Url("/user/used_chains", <<"id", address>>),
     send_payload |-> None, send_params |-> None]

get_wallet_balance_request(address) ==
    [payload |-> <<"user_addr", address>>, method |-> "GET",
     path |-> "/asset/net_curve_24h",
     url |-> Url("/asset/net_curve_24h", <<"user_addr", address>>),
     send_payload |-> None, send_params |-> None]

get_pool_request(address) ==
    [payload |-> <<"user_addr", address>>, method |-> "GET",
     path |-> "/portfolio/project_list",
     url |-> Url("/portfolio/project_list", <<"user_addr", address>>),
     send_payload |-> None, send_params |-> None]

Requests ==
    {chain_balance_request("0xa", "eth"), get_used_chains_request("0xa"),
     get_wallet_balance_request("0xb"), get_pool_request("0xb")}

NoRequest ==
    [payload |-> <<>>, method |-> "", path |-> "", url |-> Url("", <<>>),
     send_payload |-> None, send_params |-> None]

\* The line generate_req_params writes: f'{_json}|{method}|{path}\n'.
SignLine(payload, method, path) == <<payload, method, path>>

NoLine == <<<<>>, "", "">>

\* The x-api-nonce, x-api-sign and x-api-ts of setup_session.
StaticHeaders == [signed |-> NoLine, account |-> "absent"]

\* The responses the API gives, as far as send_request tells them apart:
\* the status, whether 'data' occurs in the text, and what resp.json() is.
Response(status, data_in_text, json) ==
    [kind |-> "Response", status |-> status, data_in_text |-> data_in_text,
     json |-> json]

NoneValue == [kind |-> "None", status |-> 0, data_in_text |-> FALSE, json |-> ""]

Ok200 == Response(200, TRUE, "object with data")

Responses ==
    {Ok200,
     Response(200, FALSE, "object without data"),
     Response(200, TRUE, "object without data"),
     Response(200, TRUE, "undecodable"),
     Response(429, FALSE, "Too Many"),
     Response(429, FALSE, "other"),
     Response(500, FALSE, "other")}

RequestIdle ==
    /\ req = NoRequest
    /\ rpc = "idle"
    /\ sign_args = NoLine
    /\ attempt = 0
    /\ wattempt = 0
    /\ wrestarts = 0
    /\ written = NoLine
    /\ headers = StaticHeaders
    /\ http_calls = 0
    /\ last_resp = NoneValue
    /\ retval = NoneValue
    /\ error = "none"
    /\ sign_log = <<>>
    /\ restarted = FALSE
    /\ process = "Popen"

\* get_balances has not begun its discovery, or it is not followed.
DiscoveryIdle ==
    /\ gpc = "idle"
    /\ gi = 1
    /\ chains = {}
    /\ all_pools = EmptyDict
    /\ gerror = "none"
    /\ glog = <<>>
    /\ goutcome = [get_chains |-> <<>>, get_pools |-> <<>>]
    /\ gcall = "none"
    /\ gused = <<>>
    /\ chain_list = <<>>

\* The wallets file is not followed row by row.
LoadIdle ==
    /\ file_rows = <<>>
    /\ row_id = 1
    /\ lpc = "idle"

\* get_balances is not followed in its choice of the targets.
ModeIdle ==
    /\ auto_import = FALSE
    /\ asked = {}

MainIdle == LoadIdle /\ ModeIdle

\* No call of save_to_database is followed.
DbIdle ==
    /\ db_pc = "off"
    /\ db_args = <<>>
    /\ db_committed = <<>>
    /\ db_tx = <<>>
    /\ db_pos = <<1, 1, 1>>
    /\ import_run_id = 0
    /\ db_error = "none"
    /\ db_before = <<>>

\* No NodeProcess is followed through its streams.
HandleIdle ==
    /\ np_pc = "off"
    /\ np_caller = "__init__"
    /\ np_process = None
    /\ np_running = FALSE
    /\ np_stdin = "none"
    /\ np_stdout = "none"
    /\ np_attempt = 0
    /\ np_data = "line1"
    /\ np_log = <<>>
    /\ np_starts = 0

\* No call of chain_balance is followed coin by coin.
FilterIdle ==
    /\ cb_data = <<>>
    /\ cb_ticker = None
    /\ cb_min_amount = 0
    /\ cb_pos = 1
    /\ cb_coins = <<>>
    /\ cb_kept = {}
    /\ cb_pc = "idle"

\* Mutant of InitialCoins: no key is made for the selected chains.
InitialCoins_None(selected) == [c \in {} |-> EmptyDict]

\* coins = {chain: {} for chain in selected_chains}
InitialCoins(selected) == [c \in Range(selected) |-> EmptyDict]

Init ==
    /\ RequestIdle
    /\ FilterIdle
    /\ DbIdle
    /\ HandleIdle
    /\ DiscoveryIdle
    /\ MainIdle
    /\ wallets \in WalletLists
    /\ pools \in PoolMaps(wallets)
    /\ selected_chains \in SelectableLists(SetToSeq(DOMAIN pools))
    /\ ticker = None
    /\ min_amount = 7
    /\ num_of_threads \in 1..MaxThreads
    /\ queue_tasks = <<>>
    /\ queue_results = <<>>
    /\ threads = 0
    /\ wpc = [w \in Workers |-> "unstarted"]
    /\ wtask = [w \in Workers |-> NoTask]
    /\ opc = "start_threads"
    /\ chain_id = 1
    /\ k = 1
    /\ coins = InitialCoins(selected_chains)
    /\ balances = EmptyDict
    /\ restructured_coins = EmptyDict
    /\ enqueued = 0
    /\ put_log = <<>>
    /\ produced = 0
    /\ drained = [i \in 1..Len(selected_chains) |-> 0]
    /\ drained_totals = 0
    /\ forwards = [w \in Workers |-> 0]
    /\ consumed = [w \in Workers |-> 0]
    \* main has called setup_session, and get_chains and get_pools have
    \* made their requests with its pair, one per wallet
    /\ node_process = [t \in Threads |-> IF t = MainThread THEN "started" ELSE "none"]
    /\ wsession = [w \in Workers |-> NoThread]
    /\ session_signer = [t \in Threads |->
                            IF t = MainThread /\ wallets # <<>> THEN MainThread ELSE NoThread]

(***************************************************************************)
(* worker (src/start.py): one thread of the pool.                          *)
(***************************************************************************)
\* Mutant of WorkerSetup: the worker takes the pair of the main thread.
WorkerSetup_Shared(w) ==
    /\ wpc[w] = "setup"
    /\ wsession' = [wsession EXCEPT ![w] = MainThread]
    /\ wpc' = [wpc EXCEPT ![w] = "idle"]
    /\ UNCHANGED <<rvars, fvars, dvars, mvars, bvars, hvars, inputs, node_process, session_signer,
                   queue_tasks,
                   queue_results, threads, wtask, opc, chain_id, k, coins,
                   balances, restructured_coins, enqueued, put_log, produced, drained,
                   drained_totals, forwards, consumed>>

\* session, node_process = setup_session(): a new session and a new
\* NodeProcess, whose constructor starts the subprocess.
WorkerSetup(w) ==
    /\ wpc[w] = "setup"
    /\ node_process' = [node_process EXCEPT ![w] = "started"]
    /\ wsession' = [wsession EXCEPT ![w] = w]
    /\ wpc' = [wpc EXCEPT ![w] = "idle"]
    /\ UNCHANGED <<rvars, fvars, dvars, mvars, bvars, hvars, inputs, session_signer, queue_tasks, queue_results, threads,
                   wtask, opc, chain_id, k, coins, balances,
                   restructured_coins, enqueued, put_log, produced, drained,
                   drained_totals, forwards, consumed>>

\* task = queue_tasks.get(): blocks while the queue is empty.
WorkerGet(w) ==
    /\ wpc[w] = "idle"
    /\ queue_tasks # <<>>
    /\ LET task == Head(queue_tasks)
       IN  /\ wtask' = [wtask EXCEPT ![w] = task]
           /\ wpc' = [wpc EXCEPT ![w] = IF task[1] = "done" THEN "poisoned"
                                         ELSE "busy"]
    /\ queue_tasks' = Tail(queue_tasks)
    /\ consumed' = [consumed EXCEPT ![w] = IF Head(queue_tasks)[1] = "done"
                                             THEN @ + 1 ELSE @]
    /\ UNCHANGED <<rvars, fvars, dvars, mvars, bvars, hvars, inputs, svars, queue_results, threads, opc, chain_id, k, coins,
                   balances, restructured_coins, enqueued, put_log, produced, drained,
                   drained_totals, forwards>>

\* Mutant of TaskResult: the wallet before the chain.
TaskResult_WalletFirst(task) ==
    IF task[1] = "chain_balance"
      THEN <<task[2], task[3], chain_balance(task[2], task[3], task[4], task[5])>>
      ELSE <<task[2], get_wallet_balance(task[2])>>

\* The result tuple the worker puts for the task it holds.
TaskResult(task) ==
    IF task[1] = "chain_balance"
      THEN <<task[3], task[2], chain_balance(task[2], task[3], task[4], task[5])>>
      ELSE <<task[2], get_wallet_balance(task[2])>>

\* chain_balance or get_wallet_balance, up to its send_request:
\* edit_session_headers(node_process, session, payload, ...) signs the
\* payload and writes the headers of the session.
WorkerSign(w) ==
    /\ wpc[w] = "busy"
    /\ session_signer' = [session_signer EXCEPT ![wsession[w]] = w]
    /\ wpc' = [wpc EXCEPT ![w] = "sending"]
    /\ UNCHANGED <<rvars, fvars, dvars, mvars, bvars, hvars, inputs, node_process, wsession, queue_tasks, queue_results, threads, wtask,
                   opc, chain_id, k, coins, balances, restructured_coins,
                   enqueued, put_log, produced, drained, drained_totals, forwards, consumed>>

\* send_request(node_process, session=session, ...) returned the response,
\* sent with the headers the session then held: queue_results.put(...).
WorkerRun(w) ==
    /\ wpc[w] = "sending"
    /\ queue_results' = Append(queue_results, TaskResult(wtask[w]))
    /\ produced' = produced + 1
    /\ wpc' = [wpc EXCEPT ![w] = "idle"]
    /\ wtask' = [wtask EXCEPT ![w] = NoTask]
    /\ UNCHANGED <<rvars, fvars, dvars, mvars, bvars, hvars, inputs, node_process, wsession, session_signer,
                   queue_tasks, threads, opc,
                   chain_id, k, coins, balances, restructured_coins, enqueued, put_log,
                   drained, drained_totals, forwards, consumed>>

\* The request of the task raised (the signing gave up, or the response was
\* not the expected one): worker has no handler, the thread ends.
WorkerRaise(w) ==
    /\ wpc[w] \in {"busy", "sending"}
    /\ wpc' = [wpc EXCEPT ![w] = "dead"]
    /\ UNCHANGED <<rvars, fvars, dvars, mvars, bvars, hvars, inputs, svars, queue_tasks, queue_results, threads, wtask, opc,
                   chain_id, k, coins, balances, restructured_coins, enqueued, put_log,
                   produced, drained, drained_totals, forwards, consumed>>

\* Mutant of WorkerForward: the poisoned worker exits without forwarding.
WorkerForward_NoPut(w) ==
    /\ wpc[w] = "poisoned"
    /\ wpc' = [wpc EXCEPT ![w] = "exited"]
    /\ wtask' = [wtask EXCEPT ![w] = NoTask]
    /\ UNCHANGED <<rvars, fvars, dvars, mvars, bvars, hvars, inputs, svars, queue_tasks, queue_results, threads, opc,
                   chain_id, k, coins, balances, restructured_coins, enqueued, put_log,
                   produced, drained, drained_totals, forwards, consumed>>

\* Mutant of WorkerForward: no break, the worker goes back to get a task.
WorkerForward_NoBreak(w) ==
    /\ wpc[w] = "poisoned"
    /\ queue_tasks' = Append(queue_tasks, <<"done">>)
    /\ forwards' = [forwards EXCEPT ![w] = @ + 1]
    /\ wpc' = [wpc EXCEPT ![w] = "idle"]
    /\ wtask' = [wtask EXCEPT ![w] = NoTask]
    /\ UNCHANGED <<rvars, fvars, dvars, mvars, bvars, hvars, inputs, svars, queue_results, threads, opc, chain_id, k, coins,
                   balances, restructured_coins, enqueued, put_log, produced, drained,
                   drained_totals, consumed>>

\* task[0] == 'done': queue_tasks.put(('done',)); break
WorkerForward(w) ==
    /\ wpc[w] = "poisoned"
    /\ queue_tasks' = Append(queue_tasks, <<"done">>)
    /\ forwards' = [forwards EXCEPT ![w] = @ + 1]
    /\ wpc' = [wpc EXCEPT ![w] = "exited"]
    /\ wtask' = [wtask EXCEPT ![w] = NoTask]
    /\ UNCHANGED <<rvars, fvars, dvars, mvars, bvars, hvars, inputs, svars, queue_results, threads, opc, chain_id, k, coins,
                   balances, restructured_coins, enqueued, put_log, produced, drained,
                   drained_totals, consumed>>

worker(w) ==
    \/ WorkerSetup(w)
    \/ WorkerGet(w)
    \/ WorkerSign(w)
    \/ WorkerRun(w)
    \/ WorkerRaise(w)
    \/ WorkerForward(w)

(***************************************************************************)
(* process_balances (src/start.py): the orchestrator.                      *)
(***************************************************************************)
\* th = threading.Thread(target=worker, ...); th.start()
StartThread ==
    /\ opc = "start_threads"
    /\ IF threads < num_of_threads
         THEN /\ threads' = threads + 1
              /\ wpc' = [wpc EXCEPT ![threads + 1] = "setup"]
              /\ UNCHANGED opc
         ELSE /\ opc' = "chains"
              /\ UNCHANGED <<threads, wpc>>
    /\ UNCHANGED <<rvars, fvars, dvars, mvars, bvars, hvars, inputs, svars, queue_tasks, queue_results, wtask, chain_id, k,
                   coins, balances, restructured_coins, enqueued, put_log, produced,
                   drained, drained_totals, forwards, consumed>>

\* Mutant of ChainLoop: a selected pool name is fetched as a chain is.
ChainLoop_NoPoolTest ==
    /\ opc = "chains"
    /\ IF chain_id > Len(selected_chains)
         THEN opc' = "put_totals" /\ UNCHANGED chain_id
       ELSE opc' = "put_chain" /\ UNCHANGED chain_id
    /\ k' = 1
    /\ UNCHANGED <<rvars, fvars, dvars, mvars, bvars, hvars, inputs, svars, queue_tasks,
                   queue_results, threads, wpc, wtask, coins, balances,
                   restructured_coins, enqueued, put_log, produced, drained,
                   drained_totals, forwards, consumed>>

\* for chain_id, chain in enumerate(selected_chains): if chain not in pools_names
ChainLoop ==
    /\ opc = "chains"
    /\ IF chain_id > Len(selected_chains)
         THEN opc' = "put_totals" /\ UNCHANGED chain_id
       ELSE IF selected_chains[chain_id] \in pools_names
         THEN chain_id' = chain_id + 1 /\ UNCHANGED opc
       ELSE opc' = "put_chain" /\ UNCHANGED chain_id
    /\ k' = 1
    /\ UNCHANGED <<rvars, fvars, dvars, mvars, bvars, hvars, inputs, svars, queue_tasks, queue_results, threads, wpc, wtask,
                   coins, balances, restructured_coins, enqueued, put_log, produced,
                   drained, drained_totals, forwards, consumed>>

\* for wallet in wallets: queue_tasks.put(('chain_balance', wallet, chain, ...))
PutChainTask ==
    /\ opc = "put_chain"
    /\ IF k <= Len(wallets)
         THEN /\ queue_tasks' = Append(queue_tasks,
                    <<"chain_balance", wallets[k], selected_chains[chain_id],
                      ticker, min_amount>>)
              /\ enqueued' = enqueued + 1
              /\ put_log' = Append(put_log,
                    <<"chain_balance", wallets[k], selected_chains[chain_id],
                      ticker, min_amount>>)
              /\ k' = k + 1
              /\ UNCHANGED opc
         ELSE /\ opc' = "drain_chain"
              /\ k' = 1
              /\ UNCHANGED <<queue_tasks, enqueued, put_log>>
    /\ UNCHANGED <<rvars, fvars, dvars, mvars, bvars, hvars, inputs, svars, queue_results, threads, wpc, wtask, chain_id, coins,
                   balances, restructured_coins, produced, drained,
                   drained_totals, forwards, consumed>>

\* Mutant of DrainChainResult: the barrier waits for one result too few.
DrainChainResult_OneShort ==
    /\ opc = "drain_chain"
    /\ IF k < Len(wallets)
         THEN /\ queue_results # <<>>
              /\ LET result == Head(queue_results)
                 IN  coins' = [coins EXCEPT ![result[1]] =
                                  DictSet(@, result[2], result[3])]
              /\ queue_results' = Tail(queue_results)
              /\ drained' = [drained EXCEPT ![chain_id] = @ + 1]
              /\ k' = k + 1
              /\ UNCHANGED <<opc, chain_id>>
         ELSE /\ opc' = "chains"
              /\ chain_id' = chain_id + 1
              /\ k' = 1
              /\ UNCHANGED <<queue_results, coins, drained>>
    /\ UNCHANGED <<rvars, fvars, dvars, mvars, bvars, hvars, inputs, svars, queue_tasks, threads, wpc, wtask, balances,
                   restructured_coins, enqueued, put_log, produced, drained_totals,
                   forwards, consumed>>

\* Mutant of DrainChainResult: the result is stored under the wallet of
\* the position at which it arrives.
DrainChainResult_ByArrival ==
    /\ opc = "drain_chain"
    /\ IF k <= Len(wallets)
         THEN /\ queue_results # <<>>
              /\ LET result == Head(queue_results)
                 IN  coins' = [coins EXCEPT ![result[1]] =
                                  DictSet(@, wallets[k], result[3])]
              /\ queue_results' = Tail(queue_results)
              /\ drained' = [drained EXCEPT ![chain_id] = @ + 1]
              /\ k' = k + 1
              /\ UNCHANGED <<opc, chain_id>>
         ELSE /\ opc' = "chains"
              /\ chain_id' = chain_id + 1
              /\ k' = 1
              /\ UNCHANGED <<queue_results, coins, drained>>
    /\ UNCHANGED <<rvars, fvars, dvars, mvars, bvars, hvars, inputs, svars, queue_tasks, threads, wpc,
                   wtask, balances, restructured_coins, enqueued, put_log, produced,
                   drained_totals, forwards, consumed>>

\* for _ in wallets: result = queue_results.get(); coins[result[0]][result[1]] = result[2]
DrainChainResult ==
    /\ opc = "drain_chain"
    /\ IF k <= Len(wallets)
         THEN /\ queue_results # <<>>
              /\ LET result == Head(queue_results)
                 IN  coins' = [coins EXCEPT ![result[1]] =
                                  DictSet(@, result[2], result[3])]
              /\ queue_results' = Tail(queue_results)
              /\ drained' = [drained EXCEPT ![chain_id] = @ + 1]
              /\ k' = k + 1
              /\ UNCHANGED <<opc, chain_id>>
         ELSE /\ opc' = "chains"
              /\ chain_id' = chain_id + 1
              /\ k' = 1
              /\ UNCHANGED <<queue_results, coins, drained>>
    /\ UNCHANGED <<rvars, fvars, dvars, mvars, bvars, hvars, inputs, svars, queue_tasks, threads, wpc, wtask, balances,
                   restructured_coins, enqueued, put_log, produced, drained_totals,
                   forwards, consumed>>

\* for wallet in wallets: queue_tasks.put(('get_wallet_balance', wallet))
PutTotalTask ==
    /\ opc = "put_totals"
    /\ IF k <= Len(wallets)
         THEN /\ queue_tasks' = Append(queue_tasks,
                                       <<"get_wallet_balance", wallets[k]>>)
              /\ enqueued' = enqueued + 1
              /\ put_log' = Append(put_log, <<"get_wallet_balance", wallets[k]>>)
              /\ k' = k + 1
              /\ UNCHANGED opc
         ELSE /\ opc' = "drain_totals"
              /\ k' = 1
              /\ UNCHANGED <<queue_tasks, enqueued, put_log>>
    /\ UNCHANGED <<rvars, fvars, dvars, mvars, bvars, hvars, inputs, svars, queue_results, threads, wpc, wtask, chain_id, coins,
                   balances, restructured_coins, produced, drained,
                   drained_totals, forwards, consumed>>

\* Mutant of DrainTotalResult: the barrier lets the last result go.
DrainTotalResult_OneShort ==
    /\ opc = "drain_totals"
    /\ IF k < Len(wallets)
         THEN /\ queue_results # <<>>
              /\ LET result == Head(queue_results)
                 IN  balances' = DictSet(balances, result[1], result[2])
              /\ queue_results' = Tail(queue_results)
              /\ drained_totals' = drained_totals + 1
              /\ k' = k + 1
              /\ UNCHANGED opc
         ELSE /\ opc' = "add_pools"
              /\ k' = 1
              /\ UNCHANGED <<queue_results, balances, drained_totals>>
    /\ UNCHANGED <<rvars, fvars, dvars, mvars, bvars, hvars, inputs, svars, queue_tasks, threads, wpc, wtask, chain_id, coins,
                   restructured_coins, enqueued, put_log, produced, drained, forwards, consumed>>

\* for _ in wallets: result = queue_results.get(); balances[result[0]] = result[1]
DrainTotalResult ==
    /\ opc = "drain_totals"
    /\ IF k <= Len(wallets)
         THEN /\ queue_results # <<>>
              /\ LET result == Head(queue_results)
                 IN  balances' = DictSet(balances, result[1], result[2])
              /\ queue_results' = Tail(queue_results)
              /\ drained_totals' = drained_totals + 1
              /\ k' = k + 1
              /\ UNCHANGED opc
         ELSE /\ opc' = "add_pools"
              /\ k' = 1
              /\ UNCHANGED <<queue_results, balances, drained_totals>>
    /\ UNCHANGED <<rvars, fvars, dvars, mvars, bvars, hvars, inputs, svars, queue_tasks, threads, wpc, wtask, chain_id, coins,
                   restructured_coins, enqueued, put_log, produced, drained, forwards, consumed>>

\* for pool_name, pool_data in pools.items(): coins[pool_name] = pool_data
AddPools ==
    /\ opc = "add_pools"
    /\ coins' = [c \in (DOMAIN coins) \cup (DOMAIN pools) |->
                   IF c \in DOMAIN pools THEN pools[c] ELSE coins[c]]
    /\ opc' = "put_done"
    /\ UNCHANGED <<rvars, fvars, dvars, mvars, bvars, hvars, inputs, svars, queue_tasks, queue_results, threads, wpc, wtask,
                   chain_id, k, balances, restructured_coins, enqueued, put_log,
                   produced, drained, drained_totals, forwards, consumed>>

\* queue_tasks.put(('done',))
PutDone ==
    /\ opc = "put_done"
    /\ queue_tasks' = Append(queue_tasks, <<"done">>)
    /\ opc' = "join"
    /\ k' = 1
    /\ UNCHANGED <<rvars, fvars, dvars, mvars, bvars, hvars, inputs, svars, queue_results, threads, wpc, wtask, chain_id, coins,
                   balances, restructured_coins, enqueued, put_log, produced, drained,
                   drained_totals, forwards, consumed>>

\* for th in threads: th.join(); return coins, balances, start_time
JoinThreads ==
    /\ opc = "join"
    /\ IF k <= threads
         THEN /\ wpc[k] \in {"exited", "dead"}
              /\ k' = k + 1
              /\ UNCHANGED opc
         ELSE /\ opc' = "returned"
              /\ UNCHANGED k
    /\ UNCHANGED <<rvars, fvars, dvars, mvars, bvars, hvars, inputs, svars, queue_tasks, queue_results, threads, wpc, wtask,
                   chain_id, coins, balances, restructured_coins, enqueued, put_log,
                   produced, drained, drained_totals, forwards, consumed>>

process_balances ==
    \/ StartThread
    \/ ChainLoop
    \/ PutChainTask
    \/ DrainChainResult
    \/ PutTotalTask
    \/ DrainTotalResult
    \/ AddPools
    \/ PutDone
    \/ JoinThreads

(***************************************************************************)
(* get_balances (src/start.py): the restructuring after process_balances.  *)
(***************************************************************************)
\* Mutant of Restructured: the coins of process_balances are handed on as
\* they are, without the empty list for each wallet.
Restructured_NoDefault(cs, selected, ws) ==
    [chain \in Range(selected) |->
        IF chain \in DOMAIN cs THEN cs[chain] ELSE EmptyDict]

\* Mutant of Restructured: every key of coins is handed on.
Restructured_EveryKey(cs, selected, ws) ==
    [chain \in Range(selected) \cup DOMAIN cs |->
        [wallet \in Range(ws) |->
            IF chain \in DOMAIN cs /\ wallet \in DOMAIN cs[chain]
              THEN cs[chain][wallet] ELSE <<>>]]

\* restructured_coins = {chain: {wallet: [] ...} ...}, then the copy of
\* every coins[chain][wallet] there is.
Restructured(cs, selected, ws) ==
    [chain \in Range(selected) |->
        [wallet \in Range(ws) |->
            IF chain \in DOMAIN cs /\ wallet \in DOMAIN cs[chain]
              THEN cs[chain][wallet] ELSE <<>>]]

get_balances ==
    /\ opc = "returned"
    /\ restructured_coins' = Restructured(coins, selected_chains, wallets)
    /\ opc' = "aggregated"
    /\ UNCHANGED <<rvars, fvars, dvars, mvars, bvars, hvars, inputs, svars, queue_tasks, queue_results, threads, wpc, wtask,
                   chain_id, k, coins, balances, enqueued, put_log, produced, drained,
                   drained_totals, forwards, consumed>>

\* main: get_balances has returned (or raised); finally: node_process.close()
main_finally ==
    /\ opc = "aggregated"
    /\ node_process' = [node_process EXCEPT ![MainThread] = "closed"]
    /\ opc' = "closed"
    /\ UNCHANGED <<rvars, fvars, dvars, mvars, bvars, hvars, inputs, wsession, session_signer,
                   queue_tasks,
                   queue_results, threads, wpc, wtask, chain_id, k, coins,
                   balances, restructured_coins, enqueued, put_log, produced, drained,
                   drained_totals, forwards, consumed>>

Next ==
    \/ process_balances
    \/ get_balances
    \/ main_finally
    \/ \E w \in Workers : worker(w)

Spec == Init /\ [][Next]_vars

FairSpec ==
    /\ Spec
    /\ WF_vars(process_balances \/ get_balances \/ main_finally)
    /\ \A w \in Workers : WF_vars(worker(w))

(***************************************************************************)
(* One authenticated request (src/app/utils.py).  The thread is at         *)
(*   "write"     in NodeProcess.write, called by generate_req_params,      *)
(*   "readline"  after the write and the sleep, at node_process.readline,  *)
(*   "http"      in send_request, about to call _make_request,             *)
(*   "returned"  send_request has returned retval to its caller,           *)
(*   "raised"    an exception left the request (error names it),           *)
(*   "blocked"   in a readline that no line ever answers.                  *)
(***************************************************************************)
PipelineNotStarted ==
    /\ selected_chains = <<>>
    /\ ticker = None
    /\ min_amount = 7
    /\ num_of_threads = 0
    /\ pools = EmptyDict
    /\ queue_tasks = <<>>
    /\ queue_results = <<>>
    /\ threads = 0
    /\ wpc = [w \in Workers |-> "unstarted"]
    /\ wtask = [w \in Workers |-> NoTask]
    /\ opc = "idle"
    /\ chain_id = 1
    /\ k = 1
    /\ coins = EmptyDict
    /\ balances = EmptyDict
    /\ restructured_coins = EmptyDict
    /\ enqueued = 0
    /\ put_log = <<>>
    /\ produced = 0
    /\ drained = <<>>
    /\ drained_totals = 0
    /\ forwards = [w \in Workers |-> 0]
    /\ consumed = [w \in Workers |-> 0]
    /\ node_process = [t \in Threads |-> "none"]
    /\ wsession = [w \in Workers |-> NoThread]
    /\ session_signer = [t \in Threads |-> NoThread]

PipelineIdle ==
    /\ wallets = <<>>
    /\ PipelineNotStarted

\* The caller has built its payload and calls edit_session_headers, which
\* calls generate_req_params: the thread enters the first write.
InitReq ==
    /\ PipelineIdle
    /\ FilterIdle
    /\ DbIdle
    /\ HandleIdle
    /\ DiscoveryIdle
    /\ MainIdle
    /\ req \in Requests
    /\ rpc = "write"
    /\ sign_args = SignLine(req.payload, req.method, req.path)
    /\ attempt = 0
    /\ wattempt = 0
    /\ wrestarts = 0
    /\ written = NoLine
    /\ headers = StaticHeaders
    /\ http_calls = 0
    /\ last_resp = NoneValue
    /\ retval = NoneValue
    /\ error = "none"
    /\ sign_log = <<>>
    /\ restarted = FALSE
    /\ process = "Popen"

\* NodeProcess.write: max_retries
write_max_retries == 3

\* Mutant of max_retries: one attempt more.
max_retries_Four == 3 + 1

\* generate_req_params: max_retries
max_retries == 3

\* NodeProcess.close, called by the holder of the handle before the
\* signing call is made: terminate, wait, self.process = None.
NodeProcess_close ==
    /\ rpc = "write"
    /\ attempt = 0 /\ wattempt = 0 /\ http_calls = 0
    /\ process # None
    /\ process' = None
    /\ UNCHANGED <<pvars, fvars, dvars, mvars, bvars, hvars, req, rpc, sign_args, attempt, wattempt, wrestarts, written,
                   headers, http_calls, last_resp, retval, error, sign_log,
                   restarted>>

\* NodeProcess.write with self.process None: self.process.stdin raises
\* AttributeError, which neither write (ValueError, IOError) nor
\* generate_req_params (ValueError, JSONDecodeError) catches; the stdin
\* property that would start a process is defined inside close, after its
\* last statement, and is no attribute of the class.
NodeProcess_write_no_process ==
    /\ rpc = "write"
    /\ process = None
    /\ sign_log' = Append(sign_log, "no process")
    /\ rpc' = "raised"
    /\ error' = "AttributeError: write"
    /\ UNCHANGED <<pvars, fvars, dvars, mvars, bvars, hvars, process, req, sign_args, attempt, wattempt, wrestarts,
                   written, headers, http_calls, last_resp, retval, restarted>>

\* NodeProcess.write, one turn of its loop: stdin.write and flush succeed.
NodeProcess_write_ok ==
    /\ rpc = "write"
    /\ process # None
    /\ written' = sign_args
    /\ rpc' = "readline"
    /\ UNCHANGED <<pvars, fvars, dvars, mvars, bvars, hvars, process, req, sign_args, attempt, wattempt, wrestarts, headers,
                   http_calls, last_resp, retval, error, sign_log, restarted>>

\* Mutant of NodeProcess_write_error: the process is restarted after the
\* last turn as well, before RuntimeError is raised.
NodeProcess_write_error_RestartLast ==
    /\ rpc = "write"
    /\ process # None
    /\ IF wattempt < write_max_retries - 1
         THEN /\ wattempt' = wattempt + 1
              /\ wrestarts' = wrestarts + 1
              /\ restarted' = TRUE
              /\ written' = NoLine
              /\ UNCHANGED <<rpc, error, sign_log>>
         ELSE /\ rpc' = "raised"
              /\ error' = "RuntimeError: write"
              /\ sign_log' = Append(sign_log, "write failed")
              /\ wrestarts' = wrestarts + 1
              /\ restarted' = TRUE
              /\ UNCHANGED <<wattempt, written>>
    /\ UNCHANGED <<pvars, fvars, dvars, mvars, bvars, hvars, process, req, sign_args, attempt, headers, http_calls,
                   last_resp, retval>>

\* NodeProcess.write, one turn of its loop: stdin.write raises ValueError or
\* IOError; the process is restarted, or after the last turn RuntimeError is
\* raised, which generate_req_params does not catch.
NodeProcess_write_error ==
    /\ rpc = "write"
    /\ process # None
    /\ IF wattempt < write_max_retries - 1
         THEN /\ wattempt' = wattempt + 1
              /\ wrestarts' = wrestarts + 1
              /\ restarted' = TRUE
              /\ written' = NoLine
              /\ UNCHANGED <<rpc, error, sign_log>>
         ELSE /\ rpc' = "raised"
              /\ error' = "RuntimeError: write"
              /\ sign_log' = Append(sign_log, "write failed")
              /\ UNCHANGED <<wattempt, wrestarts, restarted, written>>
    /\ UNCHANGED <<pvars, fvars, dvars, mvars, bvars, hvars, process, req, sign_args, attempt, headers, http_calls,
                   last_resp, retval>>

\* Mutant of RetryAllowed: RuntimeError already after the second failure.
RetryAllowed_OneRetry(a) == a < max_retries - 2

\* if attempt < max_retries - 1: retry, else: raise RuntimeError
RetryAllowed(a) == a < max_retries - 1

\* The except clause of generate_req_params after a failed attempt: the next
\* turn of the loop, or RuntimeError; a loop that ran out would return None,
\* which edit_session_headers cannot subscript.
AttemptFailed(outcome, restart) ==
    /\ sign_log' = Append(sign_log, outcome)
    /\ restarted' = restart
    /\ written' = IF restart THEN NoLine ELSE written
    /\ IF RetryAllowed(attempt)
         THEN IF attempt + 1 < max_retries
                THEN /\ attempt' = attempt + 1
                     /\ wattempt' = 0
                     /\ wrestarts' = 0
                     /\ rpc' = "write"
                     /\ UNCHANGED error
                ELSE /\ rpc' = "raised"
                     /\ error' = "TypeError: edit_session_headers"
                     /\ UNCHANGED <<attempt, wattempt, wrestarts>>
         ELSE /\ rpc' = "raised"
              /\ error' = "RuntimeError: generate_req_params"
              /\ UNCHANGED <<attempt, wattempt, wrestarts>>

\* readline returns the JSON triple that signs the line written: the
\* signing call returns it, edit_session_headers stores it and a fresh
\* account in the headers, and send_request calls (again) _make_request.
ReadSignature ==
    /\ rpc = "readline"
    /\ written # NoLine
    /\ sign_log' = Append(sign_log, "signature")
    /\ headers' = [signed |-> written, account |-> "random"]
    /\ rpc' = "http"
    /\ UNCHANGED <<pvars, fvars, dvars, mvars, bvars, hvars, process, req, sign_args, attempt, wattempt, wrestarts, written,
                   http_calls, last_resp, retval, error, restarted>>

\* readline returns a line json.loads decodes, but not to the triple:
\* sig['nonce'] raises in edit_session_headers.
ReadNotTriple ==
    /\ rpc = "readline"
    /\ sign_log' = Append(sign_log, "not a triple")
    /\ rpc' = "raised"
    /\ error' = "KeyError: edit_session_headers"
    /\ UNCHANGED <<pvars, fvars, dvars, mvars, bvars, hvars, process, req, sign_args, attempt, wattempt, wrestarts, written, headers,
                   http_calls, last_resp, retval, restarted>>

\* readline returns no line (ValueError is raised) or a line json.loads
\* cannot decode (JSONDecodeError).
ReadNoSignature ==
    /\ rpc = "readline"
    /\ \E outcome \in {"empty", "undecodable"} : AttemptFailed(outcome, FALSE)
    /\ UNCHANGED <<pvars, fvars, dvars, mvars, bvars, hvars, process, req, sign_args, headers, http_calls, last_resp,
                   retval>>

\* NodeProcess.readline: stdout.readline raises ValueError or IOError, the
\* process is restarted and the second readline returns no line or raises
\* ValueError, which generate_req_params catches.
ReadErrorRestart ==
    /\ rpc = "readline"
    /\ \E outcome \in {"error, then empty", "error, then ValueError"} :
          AttemptFailed(outcome, TRUE)
    /\ UNCHANGED <<pvars, fvars, dvars, mvars, bvars, hvars, process, req, sign_args, headers, http_calls, last_resp,
                   retval>>

\* NodeProcess.readline: after the restart the second readline raises
\* IOError, which nothing catches.
ReadErrorTwice ==
    /\ rpc = "readline"
    /\ sign_log' = Append(sign_log, "error, then IOError")
    /\ restarted' = TRUE
    /\ written' = NoLine
    /\ rpc' = "raised"
    /\ error' = "OSError: readline"
    /\ UNCHANGED <<pvars, fvars, dvars, mvars, bvars, hvars, process, req, sign_args, attempt, wattempt, wrestarts, headers,
                   http_calls, last_resp, retval>>

\* The subprocess writes no line: stdout.readline() has no timeout.
ReadBlocks ==
    /\ rpc = "readline"
    /\ sign_log' = Append(sign_log, "blocked")
    /\ rpc' = "blocked"
    /\ UNCHANGED <<pvars, fvars, dvars, mvars, bvars, hvars, process, req, sign_args, attempt, wattempt, wrestarts, written, headers,
                   http_calls, last_resp, retval, error, restarted>>

generate_req_params ==
    \/ NodeProcess_write_no_process
    \/ NodeProcess_write_ok
    \/ NodeProcess_write_error
    \/ ReadSignature
    \/ ReadNotTriple
    \/ ReadNoSignature
    \/ ReadErrorRestart
    \/ ReadErrorTwice
    \/ ReadBlocks

\* payload = {} if payload is None, params = {} if params is None
OrEmpty(x) == IF x = None THEN <<>> ELSE x

\* _handle_success: 'data' in resp.text and resp.json()
\* (a JSON text in which 'data' occurs is not a falsy value).
_handle_success(resp) ==
    IF resp.data_in_text
      THEN IF resp.json = "undecodable" THEN "JSONDecodeError" ELSE "resp"
      ELSE "None"

\* What _update_headers has edit_session_headers sign.
_update_headers(payload, params, method, url) ==
    IF method = "GET" THEN SignLine(params, method, PathOfUrl(url))
    ELSE SignLine(payload, method, url)

\* send_request, a turn of its loop that returns: status 200.
send_request_return ==
    /\ rpc = "http"
    /\ http_calls < MaxHttpCalls
    /\ \E resp \in Responses :
          /\ resp.status = 200
          /\ _handle_success(resp) \in {"resp", "None"}
          /\ last_resp' = resp
          /\ retval' = IF _handle_success(resp) = "resp" THEN resp ELSE NoneValue
    /\ http_calls' = http_calls + 1
    /\ rpc' = "returned"
    /\ UNCHANGED <<pvars, fvars, dvars, mvars, bvars, hvars, process, req, sign_args, attempt, wattempt, wrestarts, written, headers,
                   error, sign_log, restarted>>

\* The end of a turn that did not return: _update_headers signs again
\* (edit_session_headers, generate_req_params), then sleep(1).
Resign ==
    /\ sign_args' = _update_headers(OrEmpty(req.send_payload),
                                    OrEmpty(req.send_params), req.method, req.url)
    /\ attempt' = 0
    /\ wattempt' = 0
    /\ wrestarts' = 0
    /\ sign_log' = <<>>
    /\ restarted' = FALSE
    /\ rpc' = "write"

\* Mutant of send_request_retry: a ceiling, None is returned after the
\* second failed call.
send_request_retry_Ceiling ==
    /\ rpc = "http"
    /\ http_calls < MaxHttpCalls
    /\ \E resp \in Responses :
          /\ resp.status = 200 => _handle_success(resp) = "JSONDecodeError"
          /\ last_resp' = resp
    /\ http_calls' = http_calls + 1
    /\ IF http_calls + 1 < 2
         THEN Resign /\ UNCHANGED retval
         ELSE /\ rpc' = "returned"
              /\ retval' = NoneValue
              /\ UNCHANGED <<sign_args, attempt, wattempt, wrestarts, sign_log, restarted>>
    /\ UNCHANGED <<pvars, fvars, dvars, mvars, bvars, hvars, process, req, written, headers, error>>

\* send_request, a turn of its loop that does not return: status 429 with
\* or without 'Too Many', another status, or 200 and a body resp.json()
\* cannot decode.
send_request_retry ==
    /\ rpc = "http"
    /\ http_calls < MaxHttpCalls
    /\ \E resp \in Responses :
          /\ resp.status = 200 => _handle_success(resp) = "JSONDecodeError"
          /\ last_resp' = resp
    /\ http_calls' = http_calls + 1
    /\ Resign
    /\ UNCHANGED <<pvars, fvars, dvars, mvars, bvars, hvars, process, req, written, headers, retval, error>>

\* send_request, a turn of its loop in which _make_request raises
\* TLSClientExeption.
send_request_exception ==
    /\ rpc = "http"
    /\ http_calls < MaxHttpCalls
    /\ last_resp' = NoneValue
    /\ http_calls' = http_calls + 1
    /\ Resign
    /\ UNCHANGED <<pvars, fvars, dvars, mvars, bvars, hvars, process, req, written, headers, retval, error>>

send_request ==
    \/ send_request_return
    \/ send_request_retry
    \/ send_request_exception

NextReq ==
    \/ NodeProcess_close
    \/ generate_req_params
    \/ send_request

SpecReq == InitReq /\ [][NextReq]_vars

(***************************************************************************)
(* NodeProcess (src/app/utils.py), one handle followed from its            *)
(* construction through the calls its holder makes: _start_process with    *)
(* its with-statement over subprocess.Popen, write, readline and close.    *)
(* The streams of the subprocess are followed, so the outcome of a write   *)
(* or a read is what the state of the stream gives.  js/main.js is not     *)
(* part of the sources: whether the subprocess ends when its input is      *)
(* closed is drawn.                                                        *)
(***************************************************************************)
MaxCalls == 3

\* The lines the holder writes.
HandleLines == {"line1", "line2"}

\* NodeProcess.__init__: self.process = None, then _start_process.
NodeProcess_init ==
    /\ np_pc = "new"
    /\ np_process' = None
    /\ np_caller' = "__init__"
    /\ np_pc' = "start"
    /\ UNCHANGED <<pvars, rvars, fvars, dvars, mvars, bvars, np_running, np_stdin, np_stdout, np_attempt,
                   np_data, np_log, np_starts>>

\* _start_process up to the body of its with-statement: a process the
\* handle holds is closed (terminate, which leaves an ended process alone,
\* then wait), then Popen either raises OSError, which no caller of
\* _start_process catches, or gives a running subprocess with three open
\* pipes, which the body binds to self.process.
start_process_Popen ==
    /\ np_pc = "start"
    /\ \/ /\ np_process' = None
          /\ np_running' = FALSE
          /\ np_stdin' = "none"
          /\ np_stdout' = "none"
          /\ np_log' = Append(np_log, <<np_caller, "OSError">>)
          /\ np_pc' = "idle"
          /\ UNCHANGED np_starts
       \/ /\ np_process' = "Popen"
          /\ np_running' = TRUE
          /\ np_stdin' = "open"
          /\ np_stdout' = "open"
          /\ np_starts' = np_starts + 1
          /\ np_pc' = "with_exit"
          /\ UNCHANGED np_log
    /\ UNCHANGED <<pvars, rvars, fvars, dvars, mvars, bvars, np_caller, np_attempt, np_data>>

\* The with-statement is left: Popen.__exit__ closes stdout and stderr,
\* closes stdin, then waits for the subprocess to end.  A subprocess that
\* ends on the end of its input lets the wait return; with one that does
\* not, the wait does not return.
Popen_exit ==
    /\ np_pc = "with_exit"
    /\ np_stdout' = "closed"
    /\ np_stdin' = "closed"
    /\ \/ /\ np_running' = FALSE
          /\ np_pc' = "returned"
       \/ /\ np_running' = TRUE
          /\ np_pc' = "waiting"
    /\ UNCHANGED <<pvars, rvars, fvars, dvars, mvars, bvars, np_caller, np_process, np_attempt, np_data,
                   np_log, np_starts>>

\* _start_process has returned: its caller goes on, __init__ by returning
\* the handle, write with its next attempt, readline with its second read.
start_process_returns ==
    /\ np_pc = "returned"
    /\ np_pc' = CASE np_caller = "__init__" -> "idle"
                  [] np_caller = "write" -> "write"
                  [] np_caller = "readline" -> "reread"
    /\ UNCHANGED <<pvars, rvars, fvars, dvars, mvars, bvars, np_caller, np_process, np_running, np_stdin,
                   np_stdout, np_attempt, np_data, np_log, np_starts>>

\* The holder calls write(data).
write_call ==
    /\ np_pc = "idle"
    /\ Len(np_log) < MaxCalls
    /\ \E data \in HandleLines : np_data' = data
    /\ np_attempt' = 0
    /\ np_pc' = "write"
    /\ UNCHANGED <<pvars, rvars, fvars, dvars, mvars, bvars, np_caller, np_process, np_running, np_stdin,
                   np_stdout, np_log, np_starts>>

\* NodeProcess.write, one turn of its loop: self.process.stdin.write(data).
\* With no process the attribute access raises AttributeError; a write to
\* a closed stream raises ValueError, which restarts the process or, on the
\* last turn, becomes RuntimeError; a write to an open stream returns.
write_attempt ==
    /\ np_pc = "write"
    /\ IF np_process = None
         THEN /\ np_log' = Append(np_log, <<"write", "AttributeError">>)
              /\ np_pc' = "idle"
              /\ UNCHANGED <<np_attempt, np_caller>>
         ELSE IF np_stdin = "open"
         THEN /\ np_log' = Append(np_log, <<"write", "written">>)
              /\ np_pc' = "idle"
              /\ UNCHANGED <<np_attempt, np_caller>>
         ELSE IF np_attempt < write_max_retries - 1
         THEN /\ np_attempt' = np_attempt + 1
              /\ np_caller' = "write"
              /\ np_pc' = "start"
              /\ UNCHANGED np_log
         ELSE /\ np_log' = Append(np_log, <<"write", "RuntimeError">>)
              /\ np_pc' = "idle"
              /\ UNCHANGED <<np_attempt, np_caller>>
    /\ UNCHANGED <<pvars, rvars, fvars, dvars, mvars, bvars, np_process, np_running, np_stdin, np_stdout,
                   np_data, np_starts>>

\* The holder calls readline().
readline_call ==
    /\ np_pc = "idle"
    /\ Len(np_log) < MaxCalls
    /\ np_pc' = "readline"
    /\ UNCHANGED <<pvars, rvars, fvars, dvars, mvars, bvars, np_caller, np_process, np_running, np_stdin,
                   np_stdout, np_attempt, np_data, np_log, np_starts>>

\* NodeProcess.readline, its first read: self.process.stdout.readline().
\* A read of a closed stream raises ValueError, which restarts the process.
readline_attempt ==
    /\ np_pc = "readline"
    /\ IF np_process = None
         THEN /\ np_log' = Append(np_log, <<"readline", "AttributeError">>)
              /\ np_pc' = "idle"
              /\ UNCHANGED np_caller
         ELSE IF np_stdout = "open"
         THEN /\ np_log' = Append(np_log, <<"readline", "line">>)
              /\ np_pc' = "idle"
              /\ UNCHANGED np_caller
         ELSE /\ np_caller' = "readline"
              /\ np_pc' = "start"
              /\ UNCHANGED np_log
    /\ UNCHANGED <<pvars, rvars, fvars, dvars, mvars, bvars, np_process, np_running, np_stdin, np_stdout,
                   np_attempt, np_data, np_starts>>

\* NodeProcess.readline, the read in its handler, which nothing guards.
readline_again ==
    /\ np_pc = "reread"
    /\ np_log' = Append(np_log,
                     <<"readline",
                       IF np_stdout = "open" THEN "line" ELSE "ValueError">>)
    /\ np_pc' = "idle"
    /\ UNCHANGED <<pvars, rvars, fvars, dvars, mvars, bvars, np_caller, np_process, np_running, np_stdin,
                   np_stdout, np_attempt, np_data, np_starts>>

\* The holder calls close(): a process the handle holds is terminated and
\* waited for, and self.process becomes None.
close_call ==
    /\ np_pc = "idle"
    /\ np_pc' = "closed"
    /\ np_process' = None
    /\ np_running' = FALSE
    /\ UNCHANGED <<pvars, rvars, fvars, dvars, mvars, bvars, np_caller, np_stdin, np_stdout, np_attempt,
                   np_data, np_log, np_starts>>

InitHandle ==
    /\ PipelineIdle
    /\ RequestIdle
    /\ FilterIdle
    /\ DbIdle
    /\ DiscoveryIdle
    /\ MainIdle
    /\ np_pc = "new"
    /\ np_caller = "__init__"
    /\ np_process = None
    /\ np_running = FALSE
    /\ np_stdin = "none"
    /\ np_stdout = "none"
    /\ np_attempt = 0
    /\ np_data = "line1"
    /\ np_log = <<>>
    /\ np_starts = 0

NextHandle ==
    \/ NodeProcess_init
    \/ start_process_Popen
    \/ Popen_exit
    \/ start_process_returns
    \/ write_call
    \/ write_attempt
    \/ readline_call
    \/ readline_attempt
    \/ readline_again
    \/ close_call

SpecHandle == InitHandle /\ [][NextHandle]_vars

(***************************************************************************)
(* Properties of the NodeProcess handle.                                   *)
(***************************************************************************)
\* C34: when _start_process has returned, on construction and on a
\* restart, the handle holds a running subprocess whose input and output
\* streams are open, and no write or readline of the handle fails on a
\* closed stream.
C34_StartedProcessIsLive ==
    /\ np_pc = "returned" =>
          /\ np_process # None
          /\ np_running
          /\ np_stdin = "open"
          /\ np_stdout = "open"
    /\ \A i \in 1..Len(np_log) :
          np_log[i][2] \notin {"RuntimeError", "ValueError"}

(***************************************************************************)
(* chain_balance (src/start.py), its loop over the coin entries of one     *)
(* response followed entry by entry.  Init draws the response's data, the  *)
(* ticker and the minimal amount.                                          *)
(***************************************************************************)
MaxCoins == 2

\* The coin entries drawn: JSON numbers with and without a fraction part,
\* a null price.
DrawnCoins ==
    {Coin(symbol, amount, price) :
        symbol \in {"ETH", "BTC"},
        amount \in {Int_(2), Float(2), Float(1)},
        price \in {Int_(3), Float(3), Null}}

DrawnData == UNION {[1..n -> DrawnCoins] : n \in 0..MaxCoins}

InitFilter ==
    /\ PipelineIdle
    /\ RequestIdle
    /\ DbIdle
    /\ HandleIdle
    /\ DiscoveryIdle
    /\ MainIdle
    /\ cb_data \in DrawnData
    /\ cb_ticker \in {None, "ETH"}
    /\ cb_min_amount \in {get_minimal_amount_in_usd(entered) :
                               entered \in {0, 5, 6}}
    /\ cb_pos = 1
    /\ cb_coins = <<>>
    /\ cb_kept = {}
    /\ cb_pc = "loop"

\* coins.append({...}): the five fields of the entry.
Appended(coin) ==
    [amount |-> coin.amount, name |-> coin.name,
     ticker |-> coin.optimized_symbol, price |-> coin.price,
     logo_url |-> coin.logo_url]

\* One turn of: for coin in resp.json()['data']
chain_balance_loop ==
    /\ cb_pc = "loop"
    /\ cb_pos <= Len(cb_data)
    /\ LET coin == cb_data[cb_pos]
       IN  IF Kept(coin, cb_ticker, cb_min_amount)
             THEN /\ cb_coins' = Append(cb_coins, Appended(coin))
                  /\ cb_kept' = cb_kept \cup {cb_pos}
             ELSE UNCHANGED <<cb_coins, cb_kept>>
    /\ cb_pos' = cb_pos + 1
    /\ UNCHANGED <<pvars, rvars, dvars, mvars, bvars, hvars, cb_data, cb_ticker, cb_min_amount, cb_pc>>

\* return coins
chain_balance_return ==
    /\ cb_pc = "loop"
    /\ cb_pos > Len(cb_data)
    /\ cb_pc' = "returned"
    /\ UNCHANGED <<pvars, rvars, dvars, mvars, bvars, hvars, cb_data, cb_ticker, cb_min_amount, cb_pos,
                   cb_coins, cb_kept>>

NextFilter ==
    \/ chain_balance_loop
    \/ chain_balance_return

SpecFilter == InitFilter /\ [][NextFilter]_vars

(***************************************************************************)
(* get_balances (src/start.py), its discovery: get_chains, then get_pools, *)
(* on the main thread, one request per wallet.  Init draws the wallets;    *)
(* how each request ends (what send_request returns, or what is raised)    *)
(* is drawn among the outcomes the code tells apart.                       *)
(***************************************************************************)
InitDiscover ==
    /\ wallets \in WalletLists
    /\ PipelineNotStarted
    /\ RequestIdle
    /\ FilterIdle
    /\ DbIdle
    /\ HandleIdle
    /\ MainIdle
    /\ gpc = "get_chains"
    /\ gi = 1
    /\ chains = {}
    /\ all_pools = EmptyDict
    /\ gerror = "none"
    /\ glog = <<>>
    /\ goutcome = [get_chains |-> <<>>, get_pools |-> <<>>]
    /\ gcall = "none"
    /\ gused = <<>>
    /\ chain_list = <<>>

\* The ways the request of get_used_chains or of get_pool ends without a
\* usable response: send_request returned None (status 200, no 'data'),
\* the JSON lacks the fields subscripted, the signing call gave up.
FailedRequests == {"None", "KeyError", "RuntimeError"}

\* data.chains of a /user/used_chains response: a list of chain names.
UsedChainsLists ==
    {<<>>, <<"eth">>, <<"bsc", "eth">>, <<"eth", "bsc", "eth">>}

\* list(s) of a set s: its elements, each once, in an order of the
\* interpreter's choosing.
ListsOf(S) == {l \in [1..Cardinality(S) -> S] : Range(l) = S}

\* get_used_chains, up to its send_request: the main thread signs the
\* payload with its pair and sends the request.
get_used_chains_calls ==
    /\ gpc = "get_chains"
    /\ gi <= Len(wallets)
    /\ gcall = "none"
    /\ gcall' = "used_chains"
    /\ UNCHANGED <<pvars, rvars, fvars, mvars, bvars, hvars, gpc, gi, chains, all_pools, gerror, glog,
                   goutcome, gused, chain_list>>

\* Mutant of get_used_chains_returns: the response replaces the set.
get_used_chains_returns_Overwrite ==
    /\ gpc = "get_chains"
    /\ gi <= Len(wallets)
    /\ gcall = "used_chains"
    /\ gcall' = "none"
    /\ \E used \in UsedChainsLists :
          /\ chains' = Range(used)
          /\ gused' = Append(gused, used)
    /\ goutcome' = [goutcome EXCEPT !.get_chains = Append(@, "chains")]
    /\ gi' = gi + 1
    /\ UNCHANGED <<pvars, rvars, fvars, mvars, bvars, hvars, chain_list, gpc, all_pools, gerror, glog>>

\* get_used_chains returned: chains = chains.union(resp.json()['data']['chains'])
get_used_chains_returns ==
    /\ gpc = "get_chains"
    /\ gi <= Len(wallets)
    /\ gcall = "used_chains"
    /\ gcall' = "none"
    /\ \E used \in UsedChainsLists :
          /\ chains' = chains \cup Range(used)
          /\ gused' = Append(gused, used)
    /\ goutcome' = [goutcome EXCEPT !.get_chains = Append(@, "chains")]
    /\ gi' = gi + 1
    /\ UNCHANGED <<pvars, rvars, fvars, mvars, bvars, hvars, chain_list, gpc, all_pools, gerror, glog>>

\* get_used_chains raised: resp is None (AttributeError on resp.json()),
\* or resp.json()['data']['chains'] raises KeyError, or the signing call
\* raised RuntimeError; neither get_used_chains nor get_chains nor
\* get_balances has a handler.
get_used_chains_raises ==
    /\ gpc = "get_chains"
    /\ gi <= Len(wallets)
    /\ gcall = "used_chains"
    /\ gcall' = "none"
    /\ \E failure \in FailedRequests :
          /\ goutcome' = [goutcome EXCEPT !.get_chains = Append(@, failure)]
          /\ gerror' = CASE failure = "None" -> "AttributeError: get_used_chains"
                          [] failure = "KeyError" -> "KeyError: get_used_chains"
                          [] OTHER -> "RuntimeError: generate_req_params"
    /\ gpc' = "raised"
    /\ UNCHANGED <<pvars, rvars, fvars, mvars, bvars, hvars, gused, chain_list, gi, chains, all_pools, glog>>

\* get_chains: the loop over wallets has ended, return chains; get_pools
\* begins.
get_chains_return ==
    /\ gpc = "get_chains"
    /\ gi > Len(wallets)
    /\ gpc' = "get_pools"
    /\ gi' = 1
    /\ chain_list' \in ListsOf(chains)
    /\ UNCHANGED <<pvars, rvars, fvars, mvars, bvars, hvars, gcall, gused, chains, all_pools, gerror, glog, goutcome>>

\* get_pool, up to its send_request: the main thread signs the payload
\* with its pair and sends the request.
get_pool_calls ==
    /\ gpc = "get_pools"
    /\ gi <= Len(wallets)
    /\ gcall = "none"
    /\ gcall' = "project_list"
    /\ UNCHANGED <<pvars, rvars, fvars, mvars, bvars, hvars, gpc, gi, chains, all_pools, gerror, glog,
                   goutcome, gused, chain_list>>

\* get_pool returned its dict: no data (a warning, the empty dict) or one
\* list of coins per pool of the response; get_pools files them under the
\* wallet.
get_pool_returns ==
    /\ gpc = "get_pools"
    /\ gi <= Len(wallets)
    /\ gcall = "project_list"
    /\ gcall' = "none"
    /\ \E names \in SUBSET PoolNames :
          /\ all_pools' =
                [n \in (DOMAIN all_pools) \cup names |->
                    IF n \in names
                      THEN DictSet(IF n \in DOMAIN all_pools THEN all_pools[n]
                                   ELSE EmptyDict,
                                   wallets[gi], PoolCoins(wallets[gi]))
                      ELSE all_pools[n]]
          /\ glog' = Append(glog, IF names = {} THEN "warning: no data"
                                   ELSE "none")
          /\ goutcome' = [goutcome EXCEPT !.get_pools =
                             Append(@, IF names = {} THEN "no data" ELSE "pools")]
    /\ gi' = gi + 1
    /\ UNCHANGED <<pvars, rvars, fvars, mvars, bvars, hvars, gused, chain_list, gpc, chains, gerror>>

\* get_pool raised KeyError (a pool of the response without 'name' or
\* 'chain'): except (requests.RequestException, ValueError, KeyError)
\* logs the error, and the loop goes on.
get_pool_caught ==
    /\ gpc = "get_pools"
    /\ gi <= Len(wallets)
    /\ gcall = "project_list"
    /\ gcall' = "none"
    /\ glog' = Append(glog, "error")
    /\ goutcome' = [goutcome EXCEPT !.get_pools = Append(@, "KeyError")]
    /\ gi' = gi + 1
    /\ UNCHANGED <<pvars, rvars, fvars, mvars, bvars, hvars, gused, chain_list, gpc, chains, all_pools, gerror>>

\* get_pool raised what the except clause does not name: AttributeError
\* (resp is None), or the RuntimeError of the signing call.
get_pool_raises ==
    /\ gpc = "get_pools"
    /\ gi <= Len(wallets)
    /\ gcall = "project_list"
    /\ gcall' = "none"
    /\ \E failure \in FailedRequests \ {"KeyError"} :
          /\ goutcome' = [goutcome EXCEPT !.get_pools = Append(@, failure)]
          /\ gerror' = IF failure = "None" THEN "AttributeError: get_pool"
                       ELSE "RuntimeError: generate_req_params"
    /\ gpc' = "raised"
    /\ UNCHANGED <<pvars, rvars, fvars, mvars, bvars, hvars, gused, chain_list, gi, chains, all_pools, glog>>

\* get_pools: the loop over wallets has ended.
get_pools_loop_end ==
    /\ gpc = "get_pools"
    /\ gi > Len(wallets)
    /\ gpc' = "fill"
    /\ UNCHANGED <<pvars, rvars, fvars, mvars, bvars, hvars, gcall, gused, chain_list, gi, chains, all_pools, gerror, glog,
                   goutcome>>

\* for pool_data in all_pools.items(): for wallet in wallets:
\*     if wallet not in pool_data: pool_data[wallet] = []
\* pool_data is the tuple (name, dict): no wallet is in it, and the
\* assignment to the tuple raises TypeError as soon as there is a pool.
get_pools_fill ==
    /\ gpc = "fill"
    /\ IF DOMAIN all_pools # {} /\ wallets # <<>>
         THEN /\ gpc' = "raised"
              /\ gerror' = "TypeError: get_pools"
         ELSE /\ gpc' = "discovered"
              /\ UNCHANGED gerror
    /\ UNCHANGED <<pvars, rvars, fvars, mvars, bvars, hvars, gcall, gused, chain_list, gi, chains, all_pools, glog, goutcome>>

get_chains ==
    \/ get_used_chains_calls
    \/ get_used_chains_returns
    \/ get_used_chains_raises
    \/ get_chains_return

get_pools ==
    \/ get_pool_calls
    \/ get_pool_returns
    \/ get_pool_caught
    \/ get_pool_raises
    \/ get_pools_loop_end
    \/ get_pools_fill

NextDiscover ==
    \/ get_chains
    \/ get_pools

SpecDiscover == InitDiscover /\ [][NextDiscover]_vars

(***************************************************************************)
(* main (src/start.py), its loading of the wallets file, row by row.  A    *)
(* row is the sequence of its characters, the newline included.  Init      *)
(* draws the file.                                                         *)
(***************************************************************************)
Whitespace == {" ", "\n"}

\* The rows a wallets file is made of: an address, the same in capitals,
\* an address between blanks, an empty row, a last row without newline.
FileRows ==
    {<<"0", "x", "a", "\n">>,
     <<"0", "x", "A", "\n">>,
     <<" ", "0", "x", "b", " ", "\n">>,
     <<"\n">>,
     <<"0", "x", "B">>}

Files == UNION {[1..m -> FileRows] : m \in 0..MaxWallets}

RECURSIVE lstrip(_)
lstrip(row) ==
    IF row # <<>> /\ Head(row) \in Whitespace THEN lstrip(Tail(row)) ELSE row

RECURSIVE rstrip(_)
rstrip(row) ==
    IF row # <<>> /\ row[Len(row)] \in Whitespace
      THEN rstrip(SubSeq(row, 1, Len(row) - 1))
      ELSE row

\* str.strip(): the row without its leading and trailing whitespace.
strip(row) == rstrip(lstrip(row))

\* str.lower(): every capital replaced by its small letter.
lower(row) ==
    [i \in 1..Len(row) |-> CASE row[i] = "A" -> "a"
                              [] row[i] = "B" -> "b"
                              [] OTHER -> row[i]]

InitLoad ==
    /\ PipelineIdle
    /\ RequestIdle
    /\ FilterIdle
    /\ DbIdle
    /\ HandleIdle
    /\ DiscoveryIdle
    /\ ModeIdle
    /\ file_rows \in Files
    /\ row_id = 1
    /\ lpc = "load"

\* wallets = [row.strip().lower() for row in file]: one row.
main_load_row ==
    /\ lpc = "load"
    /\ row_id <= Len(file_rows)
    /\ wallets' = Append(wallets, lower(strip(file_rows[row_id])))
    /\ row_id' = row_id + 1
    /\ UNCHANGED <<prest, rvars, fvars, dvars, hvars, bvars, file_rows, lpc, auto_import, asked>>

\* The file is exhausted: wallets is bound, main goes on.
main_load_end ==
    /\ lpc = "load"
    /\ row_id > Len(file_rows)
    /\ lpc' = "loaded"
    /\ UNCHANGED <<pvars, rvars, fvars, dvars, hvars, bvars, file_rows, row_id, auto_import,
                   asked>>

NextLoad ==
    \/ main_load_row
    \/ main_load_end

SpecLoad == InitLoad /\ [][NextLoad]_vars

(***************************************************************************)
(* get_balances (src/start.py) as a whole: the discovery, the choice of    *)
(* the targets, then process_balances with its workers and the             *)
(* restructuring.  Init draws the wallets and auto_import.                 *)
(***************************************************************************)
InitRun ==
    /\ wallets \in WalletLists
    /\ PipelineNotStarted
    /\ RequestIdle
    /\ FilterIdle
    /\ DbIdle
    /\ HandleIdle
    /\ LoadIdle
    /\ auto_import \in BOOLEAN
    /\ asked = {}
    /\ gpc = "get_chains"
    /\ gi = 1
    /\ chains = {}
    /\ all_pools = EmptyDict
    /\ gerror = "none"
    /\ glog = <<>>
    /\ goutcome = [get_chains |-> <<>>, get_pools |-> <<>>]
    /\ gcall = "none"
    /\ gused = <<>>
    /\ chain_list = <<>>

\* min_amount = 7
AutoMinAmount == 7

\* num_of_threads = 1
AutoThreads == 1

\* What get_minimal_amount_in_usd returns: the amount the user entered.
EnteredAmounts == {5}

\* The questions of the interactive mode.
Questions == {"get_minimal_amount_in_usd", "select_chains", "get_num_of_threads"}

\* chains + list(pools): the chains, then the pool names.
Targets == chain_list \o SetToSeq(DOMAIN all_pools)

\* The call of process_balances with the targets chosen, up to its first
\* statement; the histories of the discovery end here.
CallProcessBalances(amount, selected, n) ==
    /\ min_amount' = amount
    /\ selected_chains' = selected
    /\ num_of_threads' = n
    /\ pools' = all_pools
    /\ coins' = InitialCoins(selected)
    /\ drained' = [i \in 1..Len(selected) |-> 0]
    /\ opc' = "start_threads"
    /\ node_process' = [node_process EXCEPT ![MainThread] = "started"]
    /\ session_signer' = [session_signer EXCEPT ![MainThread] =
                              IF wallets # <<>> THEN MainThread ELSE NoThread]
    /\ glog' = <<>>
    /\ goutcome' = [get_chains |-> <<>>, get_pools |-> <<>>]
    /\ gused' = <<>>
    /\ UNCHANGED <<rvars, fvars, hvars, bvars, wallets, ticker, queue_tasks, queue_results,
                   threads, wpc, wtask, chain_id, k, balances,
                   restructured_coins, enqueued, put_log, produced,
                   drained_totals, forwards, consumed, wsession, gi, chains,
                   all_pools, gerror, gcall, chain_list, file_rows, row_id, lpc,
                   auto_import>>

\* Mutant of select_targets: the questions are put in either mode.
select_targets_Asked ==
    /\ gpc = "discovered"
    /\ opc = "idle"
    /\ gpc' = "selected"
    /\ asked' = Questions
    /\ \E amount \in EnteredAmounts, selected \in SubSeqs(Targets),
          n \in ThreadAnswers :
          CallProcessBalances(get_minimal_amount_in_usd(amount), selected,
                              get_num_of_threads(n))

\* Mutant of select_targets: process_balances is called as soon as
\* get_chains has returned, get_pools going on beside it.
select_targets_BeforePools ==
    /\ gpc = "get_pools"
    /\ gi = 1
    /\ gcall = "none"
    /\ opc = "idle"
    /\ UNCHANGED gpc
    /\ IF auto_import
         THEN /\ UNCHANGED asked
              /\ CallProcessBalances(AutoMinAmount, Targets, AutoThreads)
         ELSE /\ asked' = Questions
              /\ \E amount \in EnteredAmounts, selected \in SubSeqs(Targets),
                    n \in ThreadAnswers :
                    CallProcessBalances(get_minimal_amount_in_usd(amount),
                                        selected, get_num_of_threads(n))

\* if auto_import: ... else: ..., then the call of process_balances
select_targets ==
    /\ gpc = "discovered"
    /\ opc = "idle"
    /\ gpc' = "selected"
    /\ IF auto_import
         THEN /\ UNCHANGED asked
              /\ CallProcessBalances(AutoMinAmount, Targets, AutoThreads)
         ELSE /\ asked' = Questions
              /\ \E amount \in EnteredAmounts, selected \in SubSeqs(Targets),
                    n \in ThreadAnswers :
                    CallProcessBalances(get_minimal_amount_in_usd(amount),
                                        selected, get_num_of_threads(n))

NextRun ==
    \/ NextDiscover
    \/ select_targets
    \/ Next

SpecRun == InitRun /\ [][NextRun]_vars

(***************************************************************************)
(* save_to_database (src/app/db_operations.py), one call followed          *)
(* statement by statement.  db_committed is the database as another        *)
(* connection reads it; db_tx is the database as the call's connection     *)
(* sees it inside its transaction, which sqlite3 opens before the first    *)
(* INSERT and which "with conn:" commits when its block ends and rolls     *)
(* back when its block raises.  Init draws the database and the arguments  *)
(* get_balances gives in automatic mode.  Any statement may fail in        *)
(* SQLite (a locked file, a missing table): that is drawn.  db/schema.sql  *)
(* is not part of the sources: wallet.address and chain.name are taken to  *)
(* be UNIQUE, which INSERT OR IGNORE needs to ignore anything, and the     *)
(* ids to be the row numbers.                                              *)
(***************************************************************************)
EmptyDb ==
    [import_run |-> 0, wallet |-> <<>>, chain |-> <<>>, token |-> <<>>,
     wallet_token |-> <<>>, protocol |-> <<>>, pool |-> <<>>]

\* The database an earlier import left.
PriorDb ==
    [import_run |-> 1, wallet |-> <<"0xa">>, chain |-> <<"eth">>,
     token |-> <<"USDC">>,
     wallet_token |-> <<[import_run_id |-> 1, token_id |-> 1,
                         wallet_id |-> 1, chain_id |-> 1,
                         quantity |-> Float(100), token_price |-> Float(1),
                         value |-> Float(100)]>>,
     protocol |-> <<>>, pool |-> <<>>]

\* The keys of a dict filled from the list s, in the order of insertion.
RECURSIVE DictKeys(_)
DictKeys(s) ==
    IF s = <<>> THEN <<>>
    ELSE LET front == DictKeys(SubSeq(s, 1, Len(s) - 1))
         IN  IF s[Len(s)] \in Range(front) THEN front
             ELSE Append(front, s[Len(s)])

\* What get_balances hands to save_to_database in automatic mode for the
\* wallets ws, the used chains chs and the pools map pls: selected_chains
\* is chains + list(pools), ticker is None, min_amount is 7, and
\* process_balances gives each chain its wallets' filtered entries and each
\* pool name its pool data.
AutoArguments(ws, chs, pls) ==
    LET selected == chs \o SetToSeq(DOMAIN pls)
        fetched == [c \in Range(selected) |->
                      IF c \in DOMAIN pls THEN pls[c]
                      ELSE [w \in Range(ws) |->
                              chain_balance(w, c, None, AutoMinAmount)]]
    IN  [wallets |-> ws, chains |-> selected,
         coins |-> Restructured(fetched, selected, ws), pools |-> pls]

\* executemany("INSERT OR IGNORE INTO t (name) VALUES (?)", names)
RECURSIVE InsertOrIgnore(_, _)
InsertOrIgnore(table, names) ==
    IF names = <<>> THEN table
    ELSE InsertOrIgnore(IF Head(names) \in Range(table) THEN table
                        ELSE Append(table, Head(names)),
                        Tail(names))

\* "SELECT id FROM t WHERE name = ?": the id of the row, 0 for no row
\* (fetchone() gives None).
SelectId(table, name) ==
    IF name \in Range(table)
      THEN CHOOSE i \in 1..Len(table) :
             table[i] = name /\ \A j \in 1..(i - 1) : table[j] # name
      ELSE 0

\* token['amount'] * token['price'] is defined: neither is None.
CanMultiply(token) == token.amount.kind # "null" /\ token.price.kind # "null"

\* token['amount'] * token['price']
TokenValue(token) ==
    [kind |-> IF token.amount.kind = "float" \/ token.price.kind = "float"
                THEN "float" ELSE "int",
     v |-> token.amount.v * token.price.v]

\* pool_name.rsplit(' ', 1) and chain_name.strip('()'), for the pool names
\* drawn (a name is "<project> (<chain>)", get_pool builds it so).
PoolNameParts(pool_name) ==
    CASE pool_name = "Aave (eth)" -> [protocol_name |-> "Aave", chain_name |-> "eth"]
      [] OTHER -> [protocol_name |-> pool_name, chain_name |-> pool_name]

\* Mutant of Rollback: the connection commits each statement as it is made
\* and has nothing to roll back.
Rollback_Autocommit(committed, tx) == tx

\* "with conn:" left by an exception: the transaction is rolled back, the
\* database stays as committed.
Rollback(committed, tx) == committed

\* The call's loops: the chains of coins, the wallets of a chain, the
\* pools in the order of the map, the wallets of a pool.
CoinChains == db_args.chains

CoinWallets == DictKeys(db_args.wallets)

PoolList == SetToSeq(DOMAIN db_args.pools)

PoolWallets(i) == SetToSeq(DOMAIN db_args.pools[PoolList[i]])

\* An exception leaves the block of "with conn:".  db_tx is kept as the
\* record of what the transaction had done.
db_raise(err) ==
    /\ db_pc' = "raised"
    /\ db_error' = err
    /\ db_committed' = Rollback(db_committed, db_tx)
    /\ UNCHANGED <<db_tx, db_args, db_pos, import_run_id, db_before>>

\* A statement goes through: the transaction's view becomes tx.
db_step(pc, tx, pos) ==
    /\ db_pc' = pc
    /\ db_tx' = tx
    /\ db_pos' = pos
    /\ UNCHANGED <<db_committed, db_args, db_error, import_run_id, db_before>>

\* sqlite3.connect(db_file) and conn.cursor()
save_connect ==
    /\ db_pc = "connect"
    /\ \/ db_step("import_run", db_committed, db_pos)
       \/ db_raise("sqlite3.Error")
    /\ UNCHANGED <<pvars, rvars, fvars, dvars, mvars, hvars>>

\* INSERT INTO import_run DEFAULT VALUES; import_run_id = cursor.lastrowid
save_import_run ==
    /\ db_pc = "import_run"
    /\ \/ /\ db_pc' = "wallets"
          /\ db_tx' = [db_tx EXCEPT !.import_run = @ + 1]
          /\ import_run_id' = db_tx.import_run + 1
          /\ UNCHANGED <<db_committed, db_args, db_pos, db_error, db_before>>
       \/ db_raise("sqlite3.Error")
    /\ UNCHANGED <<pvars, rvars, fvars, dvars, mvars, hvars>>

\* INSERT OR IGNORE INTO wallet, for every wallet
save_wallets ==
    /\ db_pc = "wallets"
    /\ \/ db_step("chains",
                  [db_tx EXCEPT !.wallet = InsertOrIgnore(@, db_args.wallets)],
                  db_pos)
       \/ db_raise("sqlite3.Error")
    /\ UNCHANGED <<pvars, rvars, fvars, dvars, mvars, hvars>>

\* INSERT OR IGNORE INTO chain, for every chain
save_chains ==
    /\ db_pc = "chains"
    /\ \/ db_step("token_lookup",
                  [db_tx EXCEPT !.chain = InsertOrIgnore(@, db_args.chains)],
                  db_pos)
       \/ db_raise("sqlite3.Error")
    /\ UNCHANGED <<pvars, rvars, fvars, dvars, mvars, hvars>>

\* SELECT id, name FROM token: token_lookup, which from here on holds the
\* names of db_tx.token, the call being the one writer of its transaction.
save_token_lookup ==
    /\ db_pc = "token_lookup"
    /\ \/ db_step("coins_chain", db_tx, <<1, 1, 1>>)
       \/ db_raise("sqlite3.Error")
    /\ UNCHANGED <<pvars, rvars, fvars, dvars, mvars, hvars>>

\* for chain in coins: chain_id = SELECT ... fetchone()[0]
save_coins_chain ==
    /\ db_pc = "coins_chain"
    /\ IF db_pos[1] > Len(CoinChains)
         THEN db_step("protocol_lookup", db_tx, db_pos)
         ELSE \/ IF SelectId(db_tx.chain, CoinChains[db_pos[1]]) = 0
                   THEN db_raise("TypeError")
                   ELSE db_step("coins_wallet", db_tx, <<db_pos[1], 1, 1>>)
              \/ db_raise("sqlite3.Error")
    /\ UNCHANGED <<pvars, rvars, fvars, dvars, mvars, hvars>>

\* for wallet, tokens in coins[chain].items(): wallet_id = SELECT ...
save_coins_wallet ==
    /\ db_pc = "coins_wallet"
    /\ IF db_pos[2] > Len(CoinWallets)
         THEN db_step("coins_chain", db_tx, <<db_pos[1] + 1, 1, 1>>)
         ELSE \/ IF SelectId(db_tx.wallet, CoinWallets[db_pos[2]]) = 0
                   THEN db_raise("TypeError")
                   ELSE db_step("coins_token", db_tx, <<db_pos[1], db_pos[2], 1>>)
              \/ db_raise("sqlite3.Error")
    /\ UNCHANGED <<pvars, rvars, fvars, dvars, mvars, hvars>>

\* for token in tokens: INSERT INTO token when the name is new
save_coins_token ==
    /\ db_pc = "coins_token"
    /\ LET tokens == db_args.coins[CoinChains[db_pos[1]]][CoinWallets[db_pos[2]]]
       IN  IF db_pos[3] > Len(tokens)
             THEN db_step("coins_wallet", db_tx, <<db_pos[1], db_pos[2] + 1, 1>>)
             ELSE \/ db_step("coins_row",
                             [db_tx EXCEPT !.token =
                                 InsertOrIgnore(@, <<tokens[db_pos[3]].name>>)],
                             db_pos)
                  \/ db_raise("sqlite3.Error")
    /\ UNCHANGED <<pvars, rvars, fvars, dvars, mvars, hvars>>

\* INSERT INTO wallet_token, whose value is token['amount'] * token['price']
save_wallet_token ==
    /\ db_pc = "coins_row"
    /\ LET token == db_args.coins[CoinChains[db_pos[1]]][CoinWallets[db_pos[2]]][db_pos[3]]
       IN  IF ~CanMultiply(token)
             THEN db_raise("TypeError")
             ELSE \/ db_step("coins_token",
                             [db_tx EXCEPT !.wallet_token = Append(@,
                                 [import_run_id |-> import_run_id,
                                  token_id |-> SelectId(db_tx.token, token.name),
                                  wallet_id |-> SelectId(db_tx.wallet, CoinWallets[db_pos[2]]),
                                  chain_id |-> SelectId(db_tx.chain, CoinChains[db_pos[1]]),
                                  quantity |-> token.amount,
                                  token_price |-> token.price,
                                  value |-> TokenValue(token)])],
                             <<db_pos[1], db_pos[2], db_pos[3] + 1>>)
                  \/ db_raise("sqlite3.Error")
    /\ UNCHANGED <<pvars, rvars, fvars, dvars, mvars, hvars>>

\* SELECT id, name FROM protocol: protocol_lookup
save_protocol_lookup ==
    /\ db_pc = "protocol_lookup"
    /\ \/ db_step("pool_protocol", db_tx, <<1, 1, 1>>)
       \/ db_raise("sqlite3.Error")
    /\ UNCHANGED <<pvars, rvars, fvars, dvars, mvars, hvars>>

\* for pool_name, pool_data in pools.items(): INSERT INTO protocol when the
\* name is new.  After the last pool the block of "with conn:" ends.
save_pool_protocol ==
    /\ db_pc = "pool_protocol"
    /\ IF db_pos[1] > Len(PoolList)
         THEN db_step("commit", db_tx, db_pos)
         ELSE \/ db_step("pool_chain",
                         [db_tx EXCEPT !.protocol = InsertOrIgnore(@,
                             <<PoolNameParts(PoolList[db_pos[1]]).protocol_name>>)],
                         db_pos)
              \/ db_raise("sqlite3.Error")
    /\ UNCHANGED <<pvars, rvars, fvars, dvars, mvars, hvars>>

\* chain_id = SELECT id FROM chain WHERE name = chain_name, fetchone()[0]:
\* None[0] raises TypeError when the pool's chain has no row.
save_pool_chain ==
    /\ db_pc = "pool_chain"
    /\ \/ IF SelectId(db_tx.chain, PoolNameParts(PoolList[db_pos[1]]).chain_name) = 0
            THEN db_raise("TypeError")
            ELSE db_step("pool_wallet", db_tx, <<db_pos[1], 1, 1>>)
       \/ db_raise("sqlite3.Error")
    /\ UNCHANGED <<pvars, rvars, fvars, dvars, mvars, hvars>>

\* for wallet, tokens in pool_data.items(): wallet_id = SELECT ...
save_pool_wallet ==
    /\ db_pc = "pool_wallet"
    /\ IF db_pos[2] > Len(PoolWallets(db_pos[1]))
         THEN db_step("pool_protocol", db_tx, <<db_pos[1] + 1, 1, 1>>)
         ELSE \/ IF SelectId(db_tx.wallet, PoolWallets(db_pos[1])[db_pos[2]]) = 0
                   THEN db_raise("TypeError")
                   ELSE db_step("pool_token", db_tx, <<db_pos[1], db_pos[2], 1>>)
              \/ db_raise("sqlite3.Error")
    /\ UNCHANGED <<pvars, rvars, fvars, dvars, mvars, hvars>>

\* for token in tokens: INSERT INTO token when the name is new
save_pool_token ==
    /\ db_pc = "pool_token"
    /\ LET tokens == db_args.pools[PoolList[db_pos[1]]][PoolWallets(db_pos[1])[db_pos[2]]]
       IN  IF db_pos[3] > Len(tokens)
             THEN db_step("pool_wallet", db_tx, <<db_pos[1], db_pos[2] + 1, 1>>)
             ELSE \/ db_step("pool_row",
                             [db_tx EXCEPT !.token =
                                 InsertOrIgnore(@, <<tokens[db_pos[3]].name>>)],
                             db_pos)
                  \/ db_raise("sqlite3.Error")
    /\ UNCHANGED <<pvars, rvars, fvars, dvars, mvars, hvars>>

\* INSERT INTO pool, whose value is token['amount'] * token['price']
save_pool_row ==
    /\ db_pc = "pool_row"
    /\ LET wallet == PoolWallets(db_pos[1])[db_pos[2]]
           token == db_args.pools[PoolList[db_pos[1]]][wallet][db_pos[3]]
           parts == PoolNameParts(PoolList[db_pos[1]])
       IN  IF ~CanMultiply(token)
             THEN db_raise("TypeError")
             ELSE \/ db_step("pool_token",
                             [db_tx EXCEPT !.pool = Append(@,
                                 [import_run_id |-> import_run_id,
                                  token_id |-> SelectId(db_tx.token, token.name),
                                  wallet_id |-> SelectId(db_tx.wallet, wallet),
                                  chain_id |-> SelectId(db_tx.chain, parts.chain_name),
                                  protocol_id |-> SelectId(db_tx.protocol, parts.protocol_name),
                                  quantity |-> token.amount,
                                  token_price |-> token.price,
                                  value |-> TokenValue(token)])],
                             <<db_pos[1], db_pos[2], db_pos[3] + 1>>)
                  \/ db_raise("sqlite3.Error")
    /\ UNCHANGED <<pvars, rvars, fvars, dvars, mvars, hvars>>

\* The block of "with conn:" ends: the transaction is committed, the
\* connection is closed and save_to_database returns.
save_commit ==
    /\ db_pc = "commit"
    /\ \/ /\ db_pc' = "returned"
          /\ db_committed' = db_tx
          /\ UNCHANGED <<db_tx, db_args, db_pos, db_error, import_run_id, db_before>>
       \/ db_raise("sqlite3.Error")
    /\ UNCHANGED <<pvars, rvars, fvars, dvars, mvars, hvars>>

InitDb ==
    /\ PipelineIdle
    /\ RequestIdle
    /\ FilterIdle
    /\ HandleIdle
    /\ DiscoveryIdle
    /\ MainIdle
    /\ db_pc = "connect"
    /\ db_committed \in {EmptyDb, PriorDb}
    /\ db_tx = db_committed
    /\ db_before = db_committed
    /\ \E ws \in WalletLists, chs \in SubSeqs(ChainNames) :
         \E pls \in PoolMaps(ws) : db_args = AutoArguments(ws, chs, pls)
    /\ db_pos = <<1, 1, 1>>
    /\ import_run_id = 0
    /\ db_error = "none"

NextDb ==
    \/ save_connect
    \/ save_import_run
    \/ save_wallets
    \/ save_chains
    \/ save_token_lookup
    \/ save_coins_chain
    \/ save_coins_wallet
    \/ save_coins_token
    \/ save_wallet_token
    \/ save_protocol_lookup
    \/ save_pool_protocol
    \/ save_pool_chain
    \/ save_pool_wallet
    \/ save_pool_token
    \/ save_pool_row
    \/ save_commit

SpecDb == InitDb /\ [][NextDb]_vars

(***************************************************************************)
(* Properties of the pipeline.                                             *)
(***************************************************************************)
IsPoolName(i) == selected_chains[i] \in pools_names

NonPoolIndexes == {i \in 1..Len(selected_chains) : ~IsPoolName(i)}

QueuedTasks(kind) == {i \in 1..Len(queue_tasks) : queue_tasks[i][1] = kind}

HeldTasks(kind) ==
    {w \in Workers : wpc[w] \in {"busy", "sending", "dead"} /\ wtask[w][1] = kind}

RECURSIVE SumDrained(_)
SumDrained(n) == IF n = 0 THEN 0 ELSE drained[n] + SumDrained(n - 1)

AfterChains ==
    opc \in {"put_totals", "drain_totals", "add_pools", "put_done", "join",
             "returned", "aggregated", "closed"}

AfterTotals ==
    opc \in {"add_pools", "put_done", "join", "returned", "aggregated", "closed"}

PoisonPut == opc \in {"join", "returned", "aggregated", "closed"}

\* C1: every task put on the task queue is still queued, is being executed
\* by a live worker, or has yielded its one result (no task is lost or run
\* twice); a finished chain has had exactly len(wallets) results drained,
\* and over the run the drained chain-balance results number len(wallets)
\* times the number of selected non-pool chains.
C1_NoTaskLostOrDuplicated ==
    /\ enqueued = Cardinality(QueuedTasks("chain_balance"))
                  + Cardinality(QueuedTasks("get_wallet_balance"))
                  + Cardinality({w \in Workers : wpc[w] \in {"busy", "sending"}})
                  + produced
    /\ produced = SumDrained(Len(selected_chains)) + drained_totals
                  + Len(queue_results)
    /\ \A i \in NonPoolIndexes :
          (chain_id > i \/ AfterChains) => drained[i] = Len(wallets)
    /\ AfterChains =>
          SumDrained(Len(selected_chains))
            = Len(wallets) * Cardinality(NonPoolIndexes)
    /\ AfterTotals => drained_totals = Len(wallets)

\* C2: after aggregation coins[c][w] is defined, a list, for every selected
\* chain or pool c and every input wallet w.
C2_Completeness ==
    opc \in {"aggregated", "closed"} =>
        \A i \in 1..Len(selected_chains) : \A j \in 1..Len(wallets) :
            /\ selected_chains[i] \in DOMAIN restructured_coins
            /\ wallets[j] \in DOMAIN restructured_coins[selected_chains[i]]
            /\ restructured_coins[selected_chains[i]][wallets[j]] \in
                 Seq([amount : [kind : STRING, v : Int], name : STRING,
                      ticker : STRING, price : [kind : STRING, v : Int],
                      logo_url : STRING])

\* C2's case: aggregation done where a selected pool holds no entry for
\* some input wallet, so the default of the restructuring is what is seen.
C2_Witness ==
    /\ opc = "aggregated"
    /\ \E i \in 1..Len(selected_chains) : \E j \in 1..Len(wallets) :
          /\ selected_chains[i] \in DOMAIN coins
          /\ wallets[j] \notin DOMAIN coins[selected_chains[i]]
          /\ restructured_coins[selected_chains[i]][wallets[j]] = <<>>

AllWorkersExited == \A w \in 1..num_of_threads : wpc[w] = "exited"

\* C3 as stated: once process_balances has joined its threads, every worker
\* has exited after forwarding the poison exactly once and the task queue
\* is empty.
C3_QueueEndsEmpty ==
    opc \in {"returned", "aggregated", "closed"} =>
        /\ AllWorkersExited
        /\ \A w \in 1..num_of_threads : forwards[w] = 1
        /\ queue_tasks = <<>>

C3_FinalState ==
    opc \in {"returned", "aggregated", "closed"} =>
        /\ AllWorkersExited
        /\ \A w \in 1..num_of_threads : forwards[w] = 1
        /\ queue_tasks = <<<<"done">>>>

\* C3 (amended): with N >= 1 workers and one PoisonTask enqueued, under any
\* fair interleaving every worker exits and the join of every thread
\* returns; each worker has then forwarded the poison exactly once, and the
\* task queue holds exactly one PoisonTask, the last worker's forward.
C3_PoisonShutdown ==
    /\ [](C3_FinalState)
    /\ (PoisonPut ~> (opc \in {"aggregated", "closed"} /\ AllWorkersExited))

\* C3's case: two workers were poisoned by one PoisonTask and joined.
C3_Witness ==
    /\ opc = "aggregated"
    /\ num_of_threads >= 2
    /\ Len(wallets) >= 1
    /\ \A w \in 1..num_of_threads : wpc[w] = "exited" /\ forwards[w] = 1

\* C4: a ChainBalanceTask of a chain is queued or executing only while the
\* orchestrator is in that chain's iteration and every earlier non-pool
\* chain has had len(wallets) results drained; a WalletTotalTask only after
\* every chain is drained; the PoisonTask only after len(wallets)
\* wallet-total results are drained.
C4_PhaseBarrier ==
    /\ \A i \in QueuedTasks("chain_balance") :
          /\ opc \in {"put_chain", "drain_chain"}
          /\ queue_tasks[i][3] = selected_chains[chain_id]
    /\ \A w \in HeldTasks("chain_balance") :
          /\ opc \in {"put_chain", "drain_chain"}
          /\ wtask[w][3] = selected_chains[chain_id]
    /\ opc \in {"put_chain", "drain_chain"} =>
          \A i \in NonPoolIndexes : i < chain_id => drained[i] = Len(wallets)
    /\ (QueuedTasks("get_wallet_balance") # {}
          \/ HeldTasks("get_wallet_balance") # {}) =>
          /\ opc \in {"put_totals", "drain_totals"}
          /\ \A i \in NonPoolIndexes : drained[i] = Len(wallets)
    /\ (QueuedTasks("done") # {} \/ \E w \in Workers : wpc[w] \in {"poisoned", "exited"}) =>
          /\ PoisonPut
          /\ drained_totals = Len(wallets)
          /\ \A i \in NonPoolIndexes : drained[i] = Len(wallets)

\* C4's case: the poison is on its way after two chains and the totals of
\* at least one wallet went through their barriers.
C4_Witness ==
    /\ PoisonPut
    /\ Len(wallets) >= 1
    /\ Cardinality(NonPoolIndexes) >= 2
    /\ drained_totals = Len(wallets)

ProcessBalancesReturned == opc \in {"returned", "aggregated", "closed"}

\* C11: when the signing gives up while a worker executes a task, the
\* failure reaches the caller of the pipeline: process_balances is not left
\* at a barrier, waiting for a result no step of any thread will bring.
C11_FailurePropagates ==
    (\E w \in Workers : wpc[w] = "dead") =>
        ~(opc \in {"drain_chain", "drain_totals"} /\ ~ENABLED Next)

\* C13: once process_balances has joined its workers and main has run its
\* finally clause, no NodeProcess a thread started is left un-closed.
C13_EveryProcessClosed ==
    opc = "closed" => \A t \in Threads : node_process[t] # "started"

\* C14: a worker that has started holds the session and the NodeProcess
\* its own setup_session built; no pair is held by two workers or is the
\* main thread's; the headers of a pair are only ever written by the
\* signing call of the thread that built it, and the headers with which a
\* worker sends a request are those its own signing call wrote.
C14_PrivateSessions ==
    /\ \A w \in Workers :
          /\ wpc[w] \notin {"unstarted", "setup"} => wsession[w] = w
          /\ wsession[w] # NoThread =>
                /\ wsession[w] # MainThread
                /\ \A v \in Workers \ {w} : wsession[v] # wsession[w]
          /\ wpc[w] = "sending" => session_signer[wsession[w]] = w
    /\ \A t \in Threads : session_signer[t] \in {NoThread, t}

\* C14's case: two workers are sending at the same time, each after its
\* own signing call.
C14_Witness ==
    \E v, w \in Workers :
        /\ v # w
        /\ wpc[v] = "sending" /\ wpc[w] = "sending"
        /\ wtask[v] # wtask[w]

\* What process_balances returns for its arguments when every task yields
\* its result: a function of the arguments alone.
FinalCoins ==
    [c \in Range(selected_chains) \cup DOMAIN pools |->
        IF c \in DOMAIN pools THEN pools[c]
        ELSE [w \in Range(wallets) |-> chain_balance(w, c, ticker, min_amount)]]

FinalBalances == [w \in Range(wallets) |-> get_wallet_balance(w)]

\* C17: whatever the order in which the workers produce the results and
\* the orchestrator drains them, every entry of coins and of balances is
\* the result of the task of its own key, and what process_balances returns
\* is the one aggregate its arguments determine.
C17_AggregateIndependentOfOrder ==
    /\ \A c \in DOMAIN coins : \A w \in DOMAIN coins[c] :
          c \notin pools_names =>
              coins[c][w] = chain_balance(w, c, ticker, min_amount)
    /\ \A w \in DOMAIN balances : balances[w] = get_wallet_balance(w)
    /\ ProcessBalancesReturned =>
          coins = FinalCoins /\ balances = FinalBalances

\* C17's case: the first result drained for a chain is the result of the
\* second task put, of another wallet than the first.
C17_Witness ==
    /\ opc = "drain_chain"
    /\ k = 2
    /\ Len(wallets) >= 2
    /\ wallets[1] # wallets[2]
    /\ selected_chains[chain_id] = "bsc"
    /\ DOMAIN coins["bsc"] = {wallets[2]}
    /\ coins["bsc"][wallets[2]] # chain_balance(wallets[1], "bsc", ticker, min_amount)

\* The filter as C15 states it: the ticker passes, and the price is unknown
\* or amount * price exceeds the minimal amount.
RECURSIVE FetchedAndFiltered(_, _, _)
FetchedAndFiltered(data, tick, minimum) ==
    IF data = <<>> THEN <<>>
    ELSE LET coin == Head(data)
             rest == FetchedAndFiltered(Tail(data), tick, minimum)
         IN  IF /\ tick = None \/ tick = coin.optimized_symbol
                /\ \/ coin.price.kind = "null"
                   \/ coin.amount.v * coin.price.v > minimum
               THEN <<Appended(coin)>> \o rest
               ELSE rest

\* C18: after aggregation coins[c][w] is the filtered coin list fetched for
\* wallet w on chain c, for every selected chain c that is not a pool and
\* every wallet w; the one USDC entry (amount 100, price 1) fetched for 0xa
\* on eth is in coins[eth][0xa], and coins[eth][0xb] is empty.
C18_CoinsAreTheFetchedLists ==
    ProcessBalancesReturned =>
        \A i \in NonPoolIndexes : \A j \in 1..Len(wallets) :
            /\ wallets[j] \in DOMAIN coins[selected_chains[i]]
            /\ coins[selected_chains[i]][wallets[j]] =
                  FetchedAndFiltered(BalanceList(wallets[j], selected_chains[i]),
                                     ticker, min_amount)

\* The wallets of the ChainBalanceTasks put for a chain, in the order put.
WalletsPutFor(chain) ==
    LET tasks == SelectSeq(put_log,
                           LAMBDA t : t[1] = "chain_balance" /\ t[3] = chain)
    IN  [n \in 1..Len(tasks) |-> tasks[n][2]]

\* C21: every ChainBalanceTask put is for a selected chain that is no pool
\* name; once the chain loop has ended, the tasks put for each such chain
\* are one per entry of the wallet list, and none more; and in what
\* process_balances returns, and in what get_balances builds of it for the
\* selected pools, the data of a pool is the data of the pools argument.
C21_OneTaskPerChainAndWallet ==
    /\ \A n \in 1..Len(put_log) :
          put_log[n][1] = "chain_balance" =>
              /\ put_log[n][3] \notin pools_names
              /\ \E i \in NonPoolIndexes : put_log[n][3] = selected_chains[i]
              /\ put_log[n][4] = ticker /\ put_log[n][5] = min_amount
    /\ AfterChains =>
          \A i \in NonPoolIndexes : WalletsPutFor(selected_chains[i]) = wallets
    /\ ProcessBalancesReturned =>
          \A p \in DOMAIN pools : coins[p] = pools[p]
    /\ opc \in {"aggregated", "closed"} =>
          \A p \in DOMAIN pools \cap Range(selected_chains) :
              \A w \in DOMAIN pools[p] \cap Range(wallets) :
                  restructured_coins[p][w] = pools[p][w]

\* C21's case: process_balances returned after the tasks of a chain were
\* put for two wallets, a pool being selected as well.
C21_Witness ==
    /\ ProcessBalancesReturned
    /\ Len(wallets) >= 2
    /\ NonPoolIndexes # {}
    /\ \E i \in 1..Len(selected_chains) : IsPoolName(i)

\* The wallets of the WalletTotalTasks put, in the order put.
WalletsPutForTotals ==
    LET tasks == SelectSeq(put_log, LAMBDA t : t[1] = "get_wallet_balance")
    IN  [n \in 1..Len(tasks) |-> tasks[n][2]]

\* The USD value of the most recent point of a wallet's net-worth curve.
MostRecentValue(address) ==
    LET curve == NetCurve(address)
        latest == CHOOSE i \in 1..Len(curve) :
                      \A j \in 1..Len(curve) : curve[j][1] <= curve[i][1]
    IN  curve[latest][2]

\* C22: once the totals are drained, balances[w] is defined for every
\* wallet of the list and is the USD value of the most recent point of the
\* wallet's curve, and the WalletTotalTasks put are one per entry of the
\* wallet list, none before the chain loop has ended.
C22_TotalIsLastPoint ==
    /\ AfterTotals =>
          /\ DOMAIN balances = Range(wallets)
          /\ \A w \in Range(wallets) : balances[w] = MostRecentValue(w)
          /\ WalletsPutForTotals = wallets
    /\ ~AfterChains => WalletsPutForTotals = <<>>

\* C22's case: the totals of two wallets of different curves are drained.
C22_Witness ==
    /\ AfterTotals
    /\ Len(wallets) = 2
    /\ wallets[1] # wallets[2]
    /\ balances[wallets[1]] # balances[wallets[2]]

\* The positions of queue_tasks that hold a PoisonTask.
PoisonsQueued == {n \in 1..Len(queue_tasks) : queue_tasks[n] = <<"done">>}

\* C30: the task queue never holds two PoisonTasks; a worker gets a
\* PoisonTask at most once and puts one at most once, after having got
\* one; a worker that has left its loop has got exactly one and put
\* exactly one, and none is got before process_balances has put its own.
C30_OnePoisonAtATime ==
    /\ Cardinality(PoisonsQueued) <= 1
    /\ \A w \in Workers :
          /\ consumed[w] <= 1
          /\ forwards[w] <= consumed[w]
          /\ wpc[w] = "exited" <=> forwards[w] = 1
          /\ wpc[w] = "poisoned" <=> (consumed[w] = 1 /\ forwards[w] = 0)
          /\ consumed[w] = 1 => PoisonPut
    /\ PoisonsQueued # {} =>
          \A w \in Workers : wpc[w] # "poisoned"

\* C30's case: two workers have left their loops, the PoisonTask the
\* second put being the one the queue holds.
C30_Witness ==
    /\ num_of_threads = 2
    /\ \A w \in 1..2 : wpc[w] = "exited" /\ consumed[w] = 1
    /\ Cardinality(PoisonsQueued) = 1

\* process_balances is in a fetch phase: its threads are started and it
\* has not yet added the pools.
InFetchPhases ==
    opc \in {"chains", "put_chain", "drain_chain", "put_totals", "drain_totals"}

\* C28 as stated: at every moment of the fetch phases coins[c][w] is
\* defined for every selected chain c and every wallet w of the list.
C28_DefinedThroughoutFetch ==
    InFetchPhases =>
        \A c \in Range(selected_chains) : \A w \in Range(wallets) :
            c \in DOMAIN coins /\ w \in DOMAIN coins[c]

\* C28 (amended): from the start of process_balances coins[c] is defined
\* for every selected chain c, as the empty map; during the fetch phases
\* coins[c][w] is defined only for the wallets w of which a result on c
\* has been drained, for no wallet before the first result of c and for
\* every wallet once all of c are drained, and for no wallet of a pool;
\* the map that is total over the selected chains and the wallets, the
\* empty list standing for what coins lacks, is the one get_balances builds
\* after process_balances has returned.
C28_KeysPerChainThenPerResult ==
    /\ Range(selected_chains) \subseteq DOMAIN coins
    /\ InFetchPhases =>
          \A i \in 1..Len(selected_chains) :
              LET c == selected_chains[i]
              IN  /\ DOMAIN coins[c] \subseteq Range(wallets)
                  /\ drained[i] = 0 => coins[c] = EmptyDict
                  /\ Cardinality(DOMAIN coins[c]) <= drained[i]
                  /\ (~IsPoolName(i) /\ drained[i] = Len(wallets)) =>
                        DOMAIN coins[c] = Range(wallets)
                  /\ IsPoolName(i) => coins[c] = EmptyDict
    /\ opc \in {"aggregated", "closed"} =>
          /\ DOMAIN restructured_coins = Range(selected_chains)
          /\ \A c \in Range(selected_chains) :
                /\ DOMAIN restructured_coins[c] = Range(wallets)
                /\ \A w \in Range(wallets) :
                      restructured_coins[c][w] =
                          IF w \in DOMAIN coins[c] THEN coins[c][w] ELSE <<>>

\* C28's case: of the two wallets' results on a chain one is drained, so
\* coins of the chain holds one wallet and not the other.
C28_Witness ==
    /\ opc = "drain_chain"
    /\ Len(wallets) = 2
    /\ wallets[1] # wallets[2]
    /\ drained[chain_id] = 1
    /\ Cardinality(DOMAIN coins[selected_chains[chain_id]]) = 1

\* No ChainBalanceTask or WalletTotalTask is queued, none is being
\* executed, and no result waits to be drained.
NoWorkLeft ==
    /\ QueuedTasks("chain_balance") = {}
    /\ QueuedTasks("get_wallet_balance") = {}
    /\ \A w \in Workers : wpc[w] \notin {"busy", "sending"}
    /\ queue_results = <<>>
    /\ produced = enqueued

\* C31: from the moment process_balances is to put the PoisonTask no task
\* is queued or in the hands of a worker, every task put has had its
\* result drained; so a worker that has got the PoisonTask, or has left
\* its loop, has left no task behind.
C31_ShutdownDropsNoWork ==
    /\ (opc = "put_done" \/ PoisonPut) => NoWorkLeft
    /\ (\E w \in Workers : wpc[w] \in {"poisoned", "exited"}) =>
          NoWorkLeft /\ PoisonPut

\* C31's case: after tasks of two wallets on a chain and of their totals,
\* one of two workers has left its loop and the other is still to get the
\* PoisonTask.
C31_Witness ==
    /\ opc = "join"
    /\ enqueued >= 4
    /\ \E v, w \in Workers :
          /\ wpc[v] = "exited"
          /\ wpc[w] = "idle"
          /\ queue_tasks = <<<<"done">>>>

\* C32: a result that waits in queue_results while process_balances puts
\* or drains the tasks of a chain is a chain-balance result of that chain
\* and of a wallet of the list, so coins[result[0]] is there to take it;
\* a result that waits while it puts or drains the totals is a
\* wallet-total result of a wallet of the list; in no other phase does a
\* result wait.
C32_ResultsOfThePhaseOnly ==
    /\ opc \in {"put_chain", "drain_chain"} =>
          \A n \in 1..Len(queue_results) :
              /\ Len(queue_results[n]) = 3
              /\ queue_results[n][1] = selected_chains[chain_id]
              /\ queue_results[n][1] \in DOMAIN coins
              /\ queue_results[n][2] \in Range(wallets)
    /\ opc \in {"put_totals", "drain_totals"} =>
          \A n \in 1..Len(queue_results) :
              /\ Len(queue_results[n]) = 2
              /\ queue_results[n][1] \in Range(wallets)
    /\ opc \notin {"put_chain", "drain_chain", "put_totals", "drain_totals"} =>
          queue_results = <<>>

\* C32's case: the results of two wallets on the second chain fetched
\* wait to be drained.
C32_Witness ==
    /\ opc = "drain_chain"
    /\ chain_id = 2
    /\ drained[1] = 2
    /\ Len(queue_results) = 2
    /\ queue_results[1][2] # queue_results[2][2]

\* C33: the keys of the mapping get_balances hands on are the selected
\* chains and pools and no other, and under each of them the wallets of
\* the list and no other; a pool that is not selected is in the coins of
\* process_balances and not in the mapping handed on.
C33_HandedOnIsTheSelection ==
    opc \in {"aggregated", "closed"} =>
        /\ DOMAIN restructured_coins = Range(selected_chains)
        /\ \A c \in DOMAIN restructured_coins :
              DOMAIN restructured_coins[c] = Range(wallets)
        /\ \A p \in DOMAIN pools \ Range(selected_chains) :
              p \in DOMAIN coins /\ p \notin DOMAIN restructured_coins

\* C33's case: a chain was selected and fetched for two wallets, a pool
\* was discovered and not selected.
C33_Witness ==
    /\ opc = "aggregated"
    /\ Len(wallets) = 2
    /\ selected_chains # <<>>
    /\ \E p \in DOMAIN pools : p \notin Range(selected_chains) /\ p \in DOMAIN coins

(***************************************************************************)
(* Properties of a request.                                                *)
(***************************************************************************)
\* The failures of an attempt that generate_req_params catches.
CaughtFailures ==
    {"empty", "undecodable", "error, then empty", "error, then ValueError"}

\* Every way an attempt of a signing call ends without a signature.
FailedOutcomes ==
    CaughtFailures \cup {"write failed", "not a triple", "error, then IOError",
                         "no process"}

SignErrors ==
    {"RuntimeError: write", "RuntimeError: generate_req_params",
     "KeyError: edit_session_headers", "TypeError: edit_session_headers",
     "OSError: readline", "AttributeError: write"}

OwnLine == SignLine(req.payload, req.method, req.path)

\* C5: what send_request returns to its caller is a response of status 200
\* whose body holds the data field, never None.
C5_ReturnsOnly200WithData ==
    rpc = "returned" =>
        /\ retval.kind = "Response"
        /\ retval.status = 200
        /\ retval.json = "object with data"

\* C6 as stated: once an HTTP call of send_request has failed, send_request
\* signs again and goes on to another call, whatever the number of calls:
\* it does not give up, that is, it is never ended by the RuntimeError of
\* a signing call; and a 200-with-data response is what it returns.
C6_NeverGivesUp ==
    /\ http_calls >= 1 =>
          ~(rpc = "raised" /\ error \in {"RuntimeError: write",
                                         "RuntimeError: generate_req_params"})
    /\ (rpc = "returned" /\ last_resp = Ok200) => retval = Ok200

FailedCall(resp) ==
    \/ resp = NoneValue
    \/ resp.status # 200
    \/ resp.status = 200 /\ resp.data_in_text /\ resp.json = "undecodable"

C6_Step ==
    \* a failed HTTP call, the first as the last the model follows, is
    \* followed by a signing call
    /\ (rpc = "http" /\ http_calls' = http_calls + 1 /\ FailedCall(last_resp')) =>
          /\ rpc' = "write"
          /\ attempt' = 0
          /\ sign_log' = <<>>
          /\ sign_args'[2] = req.method /\ sign_args'[3] = req.path
    \* a signing call that returns is followed by the next HTTP call
    /\ (rpc = "readline" /\ sign_log' = Append(sign_log, "signature")) =>
          rpc' = "http"
    \* send_request ends only by returning on status 200 or by an exception
    \* of the signing call
    /\ (rpc # "returned" /\ rpc' = "returned") =>
          rpc = "http" /\ last_resp'.status = 200
    /\ (rpc # "raised" /\ rpc' = "raised") =>
          rpc \in {"write", "readline"} /\ error' \in SignErrors
    \* a 200-with-data response is returned
    /\ (rpc = "http" /\ http_calls' = http_calls + 1 /\ last_resp' = Ok200) =>
          rpc' = "returned" /\ retval' = Ok200

\* C6 (amended): after any number of failed HTTP calls (429 with or without
\* the marker, another non-200 status, a TLS or JSON-decoding exception)
\* send_request signs again and, when the signing call returns, issues
\* another call, with no ceiling; it ends only by returning on a status 200
\* or by an exception raised by the signing call, which it lets through;
\* a 200-with-data response is returned to the caller.
C6_RetriesWhileSigningReturns == [][C6_Step]_vars

\* C6's case: two HTTP calls failed, the third answered 200 with data.
C6_Witness ==
    /\ rpc = "returned"
    /\ http_calls = 3
    /\ retval = Ok200

\* C7: at every HTTP call, the first and each retry, the headers hold the
\* signature made over the request's own payload, method and path.
C7_SignedOverOwnRequest ==
    rpc = "http" => headers.signed = OwnLine

\* C8: a signing call makes at most 3 attempts, and when the third fails
\* it raises: RuntimeError from generate_req_params itself when the failure
\* is one it catches.
C8_AtMostThreeAttempts ==
    /\ Len(sign_log) <= 3
    /\ (Len(sign_log) = 3 /\ sign_log[3] \in FailedOutcomes) =>
          rpc = "raised" /\ error \in SignErrors
    /\ (Len(sign_log) = 3 /\ sign_log[3] \in CaughtFailures) =>
          error = "RuntimeError: generate_req_params"
    /\ error = "RuntimeError: generate_req_params" =>
          Len(sign_log) = 3 /\ rpc = "raised"

\* C8's case: the third attempt of a signing call failed and it raised.
C8_Witness ==
    /\ rpc = "raised"
    /\ error = "RuntimeError: generate_req_params"
    /\ Len(sign_log) = 3
    /\ \A i \in 1..3 : sign_log[i] \in CaughtFailures

\* C9: when an attempt failed for want of a line, or on a line that cannot
\* be decoded, the next attempt is made on a process restarted since.
C9_RestartBeforeNextAttempt ==
    (rpc = "readline" /\ attempt >= 1
       /\ sign_log[Len(sign_log)] \in {"empty", "undecodable"}) => restarted

\* C10: after two failed attempts of a signing call the third is made, and
\* when it succeeds the call returns the triple, which signs the line
\* written, the headers take it and the HTTP call follows: no exception
\* leaves the request.
C10_ThirdAttemptSucceeds ==
    /\ (Len(sign_log) = 2 /\ sign_log[1] \in CaughtFailures
          /\ sign_log[2] \in CaughtFailures) =>
          rpc \in {"write", "readline"} /\ attempt = 2 /\ error = "none"
    /\ (Len(sign_log) = 3 /\ sign_log[3] = "signature") =>
          /\ rpc \in {"http", "returned"}
          /\ error = "none"
          /\ headers.signed = sign_args
          /\ headers.account = "random"

\* C10's case: two attempts failed, the third signed, and the HTTP call
\* that followed was answered.
C10_Witness ==
    /\ sign_log = <<"empty", "undecodable", "signature">>
    /\ rpc = "returned"
    /\ retval = Ok200
    /\ error = "none"

\* C26: an attempt of a signing call whose process is running and writes
\* no line ends, in a failure the call counts as it counts the others: the
\* caller is not left in the readline.
C26_SignCallTerminates ==
    (sign_log # <<>> /\ sign_log[Len(sign_log)] = "blocked") =>
        /\ rpc \in {"write", "readline", "raised"}
        /\ attempt >= 1 \/ error \in SignErrors

C39_Step ==
    \* an attempt that succeeds ends the call, with no restart
    /\ (rpc = "write" /\ rpc' = "readline") =>
          /\ written' = sign_args
          /\ UNCHANGED <<wattempt, wrestarts, restarted, process>>
    \* an attempt that fails and is not the third is followed by a restart
    \* and the next attempt
    /\ (rpc = "write" /\ wattempt' = wattempt + 1) =>
          /\ wattempt < 2
          /\ wrestarts' = wrestarts + 1
          /\ restarted'
          /\ rpc' = "write"
    \* the third attempt that fails raises RuntimeError, with no restart
    /\ (rpc = "write" /\ sign_log' = Append(sign_log, "write failed")) =>
          /\ wattempt = 2
          /\ rpc' = "raised" /\ error' = "RuntimeError: write"
          /\ UNCHANGED <<wattempt, wrestarts, restarted>>
    /\ (error # "RuntimeError: write" /\ error' = "RuntimeError: write") =>
          rpc = "write" /\ wattempt = 2

\* C39: a call of NodeProcess.write makes three attempts at most; an
\* attempt that fails is followed by a restart of the process and the next
\* attempt, but for the third, which raises RuntimeError with no restart;
\* an attempt that succeeds ends the call with no restart.
C39_WriteAtMostThrice ==
    /\ [](wattempt \in 0..2 /\ wrestarts = wattempt)
    /\ [][C39_Step]_vars

\* C39's case: two attempts of a call failed, each followed by a restart,
\* and the third has written the line.
C39_Witness ==
    /\ rpc = "readline"
    /\ wattempt = 2
    /\ wrestarts = 2
    /\ written = sign_args

\* C12: when no process is running as a signing call is made (close has
\* set the handle to None), a process is started and the call goes on
\* against it: past its write the handle is a process, and the call does
\* not fail for want of one.
C12_ProcessStartedOnDemand ==
    /\ rpc # "write" => process # None
    /\ error # "AttributeError: write"

(***************************************************************************)
(* Properties of the discovery.                                            *)
(***************************************************************************)
\* C19: when the fetch or the decoding of the pool data of a wallet fails,
\* the error is logged and get_pools goes on to the next wallet: the
\* failure does not leave get_balances as an exception.
C19_PoolFailureIsEmptySet ==
    \A i \in 1..Len(goutcome.get_pools) :
        goutcome.get_pools[i] \in {"None", "KeyError"} =>
            /\ i <= Len(glog) /\ glog[i] = "error"
            /\ gi > i
            /\ gerror # "AttributeError: get_pool"

\* C20: when the used-chains response of a wallet cannot be obtained or
\* lacks the expected fields, the wallet contributes no chain and
\* get_chains goes on to the next wallet: the failure does not leave
\* get_balances as an exception.
C20_ChainFailureIsNoData ==
    \A i \in 1..Len(goutcome.get_chains) :
        goutcome.get_chains[i] \in {"None", "KeyError"} =>
            /\ gi > i \/ gpc # "get_chains"
            /\ gerror \notin {"AttributeError: get_used_chains",
                               "KeyError: get_used_chains"}

\* The chains listed in the used-chains responses received so far.
ListedChains == UNION {Range(gused[i]) : i \in 1..Len(gused)}

\* C27: the chain set of get_chains holds the chains listed in the
\* used-chains responses of the wallets, all of them and no other; once
\* get_chains has returned there is one response per wallet, and the list
\* get_balances makes of the set holds each of these chains once.
C27_ChainsAreTheUnion ==
    /\ chains = ListedChains
    /\ gpc \in {"get_pools", "fill", "discovered"} =>
          /\ Len(gused) = Len(wallets)
          /\ Range(chain_list) = ListedChains
          /\ \A i, j \in 1..Len(chain_list) :
                chain_list[i] = chain_list[j] => i = j

\* C27's case: get_chains returned after two wallets were answered with
\* different lists, one of them naming a chain twice, and both chains are
\* in the list.
C27_Witness ==
    /\ gpc = "get_pools"
    /\ Len(gused) = 2
    /\ gused[1] = <<"eth", "bsc", "eth">>
    /\ gused[2] = <<"eth">>
    /\ Len(chain_list) = 2

\* C29: get_pools is not ended by an exception of its own when a pool was
\* discovered, and in the map it returns every pool maps every wallet of
\* the list.
C29_PoolsMapEveryWallet ==
    /\ gerror # "TypeError: get_pools"
    /\ gpc = "discovered" =>
          \A n \in DOMAIN all_pools : \A w \in Range(wallets) :
              w \in DOMAIN all_pools[n]

(***************************************************************************)
(* Properties of get_balances as a whole.                                  *)
(***************************************************************************)
\* A worker has a request of a task under way.
WorkerRequesting(w) == wpc[w] \in {"busy", "sending"}

\* C23: while get_chains and get_pools make their requests no worker
\* thread exists, so no request of a worker is under way beside a request
\* of the discovery; a worker thread is started only once the discovery
\* has made the last of its requests and returned, and from then on no
\* request of the discovery is made.
C23_DiscoveryBeforeWorkers ==
    /\ gpc \in {"get_chains", "get_pools", "fill", "discovered", "raised"} =>
          /\ threads = 0
          /\ \A w \in Workers : wpc[w] = "unstarted"
          /\ opc = "idle"
    /\ gcall # "none" => \A w \in Workers : ~WorkerRequesting(w)
    /\ (\E w \in Workers : wpc[w] # "unstarted") =>
          /\ gpc = "selected"
          /\ gcall = "none"
          /\ gi > Len(wallets)

\* C23's case: the discovery made its requests for two wallets, and two
\* workers now have requests of tasks under way.
C23_Witness ==
    /\ gpc = "selected"
    /\ Len(wallets) = 2
    /\ chains # {}
    /\ \E v, w \in Workers : v # w /\ WorkerRequesting(v) /\ WorkerRequesting(w)

\* C24: in the automatic mode what process_balances is called with is
\* every chain and every pool discovered, each once, the minimal amount 7
\* and no answer of the user: no question was put.
C24_AutoSelectsEverything ==
    (auto_import /\ gpc = "selected") =>
        /\ Range(selected_chains) = chains \cup DOMAIN all_pools
        /\ Len(selected_chains) = Cardinality(chains \cup DOMAIN all_pools)
        /\ pools = all_pools
        /\ min_amount = 7
        /\ asked = {}

\* C24's case: the automatic mode has selected the two chains discovered
\* and fetched them.
C24_Witness ==
    /\ auto_import
    /\ gpc = "selected"
    /\ Len(selected_chains) = 2
    /\ ProcessBalancesReturned

\* C35: whatever integer was entered as the number of threads,
\* process_balances is called with one thread at least, and it does not
\* wait at the barrier of a chain with no worker started.
C35_PoolHasAWorker ==
    /\ (gpc = "selected" /\ ~auto_import) => num_of_threads >= 1
    /\ (opc = "drain_chain" /\ k <= Len(wallets)) => threads >= 1

(***************************************************************************)
(* Properties of the loading.                                              *)
(***************************************************************************)
\* C25: the wallet list main has loaded holds lower-cased addresses only,
\* and no address twice.
C25_LoadedLowerAndUnique ==
    lpc = "loaded" =>
        /\ \A i \in 1..Len(wallets) :
              /\ wallets[i] = lower(wallets[i])
              /\ \A j \in 1..Len(wallets) : wallets[i] = wallets[j] => i = j

(***************************************************************************)
(* Properties of the filter of chain_balance.                              *)
(***************************************************************************)
KnownPrice(coin) == coin.price.kind # "null"

TickerMatches(coin) == cb_ticker = None \/ cb_ticker = coin.optimized_symbol

\* The entries at the positions kept, in the order of the response.
RECURSIVE KeptInOrder(_)
KeptInOrder(n) ==
    IF n = 0 THEN <<>>
    ELSE KeptInOrder(n - 1)
           \o (IF n \in cb_kept THEN <<Appended(cb_data[n])>> ELSE <<>>)

\* C15: a coin entry of known price is in the result of chain_balance if
\* and only if its ticker equals the filter (or there is no filter) and
\* amount * price strictly exceeds the minimal amount; what is retained
\* keeps the order of the response and its five fields.
C15_RetainedIffAboveMinimum ==
    cb_pc = "returned" =>
        /\ \A i \in 1..Len(cb_data) :
              KnownPrice(cb_data[i]) =>
                 (i \in cb_kept <=>
                    /\ TickerMatches(cb_data[i])
                    /\ cb_data[i].amount.v * cb_data[i].price.v > cb_min_amount)
        /\ cb_coins = KeptInOrder(Len(cb_data))

\* C36: for the amount 0 entered the minimal amount of chain_balance is
\* -1, and every entry of known price whose ticker passes and whose
\* amount * price is 0 or more is in the result.
C36_ZeroRetainsEveryPriced ==
    /\ get_minimal_amount_in_usd(0) = 0 - 1
    /\ (cb_pc = "returned" /\ cb_min_amount = get_minimal_amount_in_usd(0)) =>
          \A i \in 1..Len(cb_data) :
              (/\ KnownPrice(cb_data[i])
               /\ TickerMatches(cb_data[i])
               /\ cb_data[i].amount.v * cb_data[i].price.v >= 0) => i \in cb_kept

\* C16 as stated: every coin entry of unknown price is in the result.
C16_UnknownPriceAlwaysRetained ==
    cb_pc = "returned" =>
        \A i \in 1..Len(cb_data) : ~KnownPrice(cb_data[i]) => i \in cb_kept

\* C16 (amended): a coin entry of unknown price is in the result of
\* chain_balance whatever the minimal amount if its ticker equals the filter
\* or there is no filter, and only then.
C16_UnknownPriceRetainedIfTicker ==
    cb_pc = "returned" =>
        \A i \in 1..Len(cb_data) :
            ~KnownPrice(cb_data[i]) =>
                (i \in cb_kept <=> TickerMatches(cb_data[i]))

\* C16's case: under the filter ETH, an ETH entry of unknown price was
\* retained next to an ETH entry of known price that was not.
C16_Witness ==
    /\ cb_pc = "returned"
    /\ cb_ticker = "ETH"
    /\ \E i, j \in 1..Len(cb_data) :
          /\ ~KnownPrice(cb_data[i]) /\ cb_data[i].optimized_symbol = "ETH"
          /\ i \in cb_kept
          /\ KnownPrice(cb_data[j]) /\ cb_data[j].optimized_symbol = "ETH"
          /\ j \notin cb_kept

(***************************************************************************)
(* Properties of save_to_database.                                         *)
(***************************************************************************)
\* C37: save_to_database ends without an error of its own making for every
\* aggregate automatic mode can hand it, entries of unknown price
\* included: an exception that leaves it comes from SQLite.
C37_SavesEveryAggregate ==
    db_args.pools = EmptyDict => db_error # "TypeError"

\* The entries of coins, over the chains and the wallets of the call.
RECURSIVE RowsOf(_, _)
RowsOf(i, j) ==
    IF i > Len(CoinChains) THEN 0
    ELSE IF j > Len(CoinWallets) THEN RowsOf(i + 1, 1)
    ELSE Len(db_args.coins[CoinChains[i]][CoinWallets[j]]) + RowsOf(i, j + 1)

\* The entries of pools, over the pools and their wallets.
RECURSIVE PoolRowsOf(_, _)
PoolRowsOf(i, j) ==
    IF i > Len(PoolList) THEN 0
    ELSE IF j > Len(PoolWallets(i)) THEN PoolRowsOf(i + 1, 1)
    ELSE Len(db_args.pools[PoolList[i]][PoolWallets(i)[j]]) + PoolRowsOf(i, j + 1)

IsPrefix(s, t) == Len(s) <= Len(t) /\ SubSeq(t, 1, Len(s)) = s

\* C38: a call of save_to_database that raises leaves the database as it
\* was when the call began, with none of the rows the call inserted; a
\* call that returns has committed every row it inserted: the import run,
\* the wallets, the chains, the tokens and a wallet_token row for every
\* entry of coins, the protocols and a pool row for every entry of pools.
C38_AllOrNothing ==
    /\ db_pc = "raised" => db_committed = db_before
    /\ db_pc = "returned" =>
          /\ db_committed = db_tx
          /\ db_committed.import_run = db_before.import_run + 1
          /\ import_run_id = db_committed.import_run
          /\ \A t \in {"wallet", "chain", "token", "wallet_token", "protocol", "pool"} :
                IsPrefix(db_before[t], db_committed[t])
          /\ Range(db_args.wallets) \subseteq Range(db_committed.wallet)
          /\ Range(db_args.chains) \subseteq Range(db_committed.chain)
          /\ Len(db_committed.wallet_token) =
                Len(db_before.wallet_token) + RowsOf(1, 1)
          /\ Len(db_committed.pool) = Len(db_before.pool) + PoolRowsOf(1, 1)
          /\ \A i \in 1..Len(PoolList) :
                PoolNameParts(PoolList[i]).protocol_name \in Range(db_committed.protocol)
          /\ \A i \in (Len(db_before.wallet_token) + 1)..Len(db_committed.wallet_token) :
                /\ db_committed.wallet_token[i].import_run_id = import_run_id
                /\ db_committed.wallet_token[i].token_id \in 1..Len(db_committed.token)

\* C38's case: the call raised part-way, after it had inserted its import
\* run, wallets, chains, a token and a wallet_token row.
C38_Witness ==
    /\ db_pc = "raised"
    /\ db_tx.import_run = db_before.import_run + 1
    /\ Len(db_tx.wallet) > Len(db_before.wallet)
    /\ Len(db_tx.chain) > Len(db_before.chain)
    /\ Len(db_tx.token) > Len(db_before.token)
    /\ Len(db_tx.wallet_token) > Len(db_before.wallet_token)

=============================================================================
